---- MODULE Spec2Model ----
(***************************************************************************)
(* Coauthor graph layout engine.                                           *)
(*                                                                         *)
(*   Spec      the execution host of src/lib/layoutWorker.ts: the module   *)
(*             state (worker, pendingResolve, pendingReject,               *)
(*             pendingPromise), computeLayoutAsync, the worker's message   *)
(*             and error handlers, the timeout timers and                  *)
(*             terminateLayoutWorker, run on one event loop (macrotasks    *)
(*             and a microtask queue) next to the worker thread of         *)
(*             src/workers/layout.worker.ts.                               *)
(*   SpecLoop  the convergence loop of computeLayout (worker) and of       *)
(*             computeFastLayout (caller's thread): batches of force       *)
(*             simulation iterations up to the iteration ceiling.          *)
(*   SpecPipe  the end of computeLayout on a small explicit graph: the     *)
(*             simulated graph, scalePositions, then the passes of         *)
(*             resolveOverlaps. Coordinates are fixed-point numbers.       *)
(*   SpecGraph createGraph on a small explicit node and edge list, run     *)
(*             twice on the same input.                                    *)
(*   SpecCache the layout cache of src/components/CoauthorGraph.tsx under  *)
(*             cacheLayout and getCachedLayout calls.                      *)
(*   SpecBuild the graph builders of src/lib/graph.ts over small           *)
(*             publication lists: the coauthor map of extractCoauthors     *)
(*             and the node list built from it.                            *)
(*   SpecMsg   self.onmessage of the layout worker on a short sequence of  *)
(*             messages.                                                   *)
(*   SpecOverlap the pass loop of resolveOverlaps: pass budget, early      *)
(*             exit and the rebuilds of the spatial grid.                  *)
(*   SpecGrid  one pass of resolveOverlaps over a freshly built            *)
(*             SpatialGrid next to the same pass over all pairs.           *)
(*   SpecComp  the graph component: initializeCytoscape, the filter        *)
(*             effect and the resize handler over the layout cache.        *)
(*   SpecRate  checkRateLimit and the cleanup interval of                  *)
(*             src/lib/rateLimit.ts.                                       *)
(***************************************************************************)
EXTENDS Integers, Sequences, FiniteSets, TLC

(***************************************************************************)
(* Bounds of the model.                                                    *)
(***************************************************************************)
\* number of computeLayoutAsync calls in one behaviour
MaxReqs == 3

\* nodes of the explicit graphs of SpecPipe
MaxNodes == 3
\* fixed-point resolution: a coordinate c stands for c / Resolution pixels
Resolution == 10
\* edges of the edge lists of SpecGraph
MaxEdges == 2
\* calls on a key already in the layout cache in one behaviour of SpecCache
MaxTouches == 2

(***************************************************************************)
(* Program constants.                                                      *)
(***************************************************************************)
LAYOUT_TIMEOUT == 30000
WORKER_THRESHOLD == 150

Reqs == 1..MaxReqs
Null == 0
\* one step of the clock: half the timeout
TickMs == LAYOUT_TIMEOUT \div 2
\* node counts of the requests: just below and at the worker threshold
NodeCounts == {WORKER_THRESHOLD - 1, WORKER_THRESHOLD}

Min(a, b) == IF a <= b THEN a ELSE b
Max(a, b) == IF a >= b THEN a ELSE b
Range(s) == {s[i] : i \in 1..Len(s)}

RECURSIVE SortedSeq(_)
\* the elements of a set of numbers in ascending order
SortedSeq(S) ==
  IF S = {} THEN <<>>
  ELSE LET m == CHOOSE x \in S : \A y \in S : x <= y
       IN  <<m>> \o SortedSeq(S \ {m})

RECURSIVE Without(_, _)
\* the sequence s without the elements of D
Without(s, D) ==
  IF s = <<>> THEN <<>>
  ELSE IF Head(s) \in D THEN Without(Tail(s), D)
       ELSE <<Head(s)>> \o Without(Tail(s), D)

(***************************************************************************)
(* State of the execution host.                                            *)
(*   hasWindow       typeof window !== 'undefined'                         *)
(*   worker          "null", or the Worker object: "live", "faulty" (its   *)
(*                   script failed, the error event is not yet            *)
(*                   dispatched), "dead" (error event dispatched)          *)
(*   pendingResolve, pendingReject, pendingPromise                         *)
(*                   the request whose resolve / reject / promise the      *)
(*                   module variable holds, Null for null                  *)
(*   pc              position of each computeLayoutAsync call              *)
(*   nodesLen        nodes.length of each call                             *)
(*   waitOn          the promise a call awaits at line 104                 *)
(*   outcome         how the promise returned by each call settled         *)
(*   timers          armed timeout timers, in the order they were set      *)
(*   age             time since the timer of a request was set             *)
(*   clearOn         the promise whose finally() clears a request's timer  *)
(*   wq              compute messages at the worker thread, oldest first;  *)
(*                   a live worker is computing the oldest one             *)
(*   inbox           messages posted by the worker, not yet handled        *)
(*   micro           continuations ready to run (microtask queue)          *)
(*   syncRunning     the call computing computeFastLayout on the caller's  *)
(*                   thread                                                *)
(***************************************************************************)
VARIABLES hasWindow, worker, pendingResolve, pendingReject, pendingPromise,
          pc, nodesLen, waitOn, outcome, timers, age, clearOn,
          wq, inbox, micro, syncRunning

hostVars == <<hasWindow, worker, pendingResolve, pendingReject, pendingPromise,
              pc, nodesLen, waitOn, outcome, timers, age, clearOn,
              wq, inbox, micro, syncRunning>>

(***************************************************************************)
(* State of the convergence loop (SpecLoop).                               *)
(*   route            "worker" (computeLayout of layout.worker.ts) or      *)
(*                    "sync" (computeFastLayout)                           *)
(*   nodeCount        nodes.length                                         *)
(*   totalIterations  force simulation iterations run so far               *)
(*   totalMovement2   twice the summed displacement of the last batch      *)
(*   loopPc           "loop" at the loop test, "done" after the loop       *)
(*   fa2Settings      the settings handed to forceAtlas2.assign; theta and *)
(*                    gravity are kept in tenths                           *)
(***************************************************************************)
VARIABLES route, nodeCount, totalIterations, totalMovement2, loopPc,
          fa2Settings

loopVars == <<route, nodeCount, totalIterations, totalMovement2, loopPc,
              fa2Settings>>

(***************************************************************************)
(* State of the layout pipeline (SpecPipe).                                *)
(*   nodes            the request's node list: records [id, paperCount]    *)
(*   centerNodeId     the request's center id                              *)
(*   containerWidth, containerHeight                                       *)
(*   graph            the simulation graph after the force simulation:     *)
(*                    records [id, x, y] in insertion order                *)
(*   positions        the position map, a function from ids to [x, y]      *)
(*   iter             passes of resolveOverlaps run so far                 *)
(*   pipePc           "input", "simulated", "resolving", "done", "threw"   *)
(***************************************************************************)
VARIABLES nodes, centerNodeId, containerWidth, containerHeight, graph,
          positions, iter, pipePc

pipeVars == <<nodes, centerNodeId, containerWidth, containerHeight, graph,
              positions, iter, pipePc>>

(***************************************************************************)
(* State of the construction of the simulation graph (SpecGraph).          *)
(*   edges            the request's edge list: records [source, target,    *)
(*                    weight]                                              *)
(*   simNodes         the nodes of the graphology graph in insertion       *)
(*                    order: records [id, x, y, size, fixed]               *)
(*   simEdges         its edges in insertion order: records [source,       *)
(*                    target, weight]                                      *)
(*   gPc              "nodes" in nodes.forEach, "edges" in edges.forEach,  *)
(*                    "done" after createGraph returned, "threw"           *)
(*   gi               elements of the current list already visited         *)
(*   runNo            1 in the first createGraph run on the input, 2 in    *)
(*                    the second                                           *)
(*   firstNodes       the nodes the first run built                        *)
(***************************************************************************)
VARIABLES edges, simNodes, simEdges, gPc, gi, runNo, firstNodes

graphVars == <<edges, simNodes, simEdges, gPc, gi, runNo, firstNodes>>

(***************************************************************************)
(* State of the layout cache of CoauthorGraph.tsx (SpecCache).             *)
(*   layoutCache      the keys of the Map in insertion order               *)
(*   lastUse          the keys of the cache ordered by their last use (the *)
(*                    latest cacheLayout write or getCachedLayout hit),    *)
(*                    least recent first: a history of the calls           *)
(*   touches          getCachedLayout hits and cacheLayout writes to a     *)
(*                    key already present, so far                          *)
(***************************************************************************)
VARIABLES layoutCache, lastUse, touches

cacheVars == <<layoutCache, lastUse, touches>>

(***************************************************************************)
(* State of the graph builders (lib/graph.ts, lib/dblp.ts).               *)
(***************************************************************************)
VARIABLES builder, centerPid, publications, bPc, pubIdx, authIdx,
          coauthorsMap, builtNodes

buildVars == <<builder, centerPid, publications, bPc, pubIdx, authIdx,
               coauthorsMap, builtNodes>>

(***************************************************************************)
(* State of the worker's message handler (layout.worker.ts lines 319-330): *)
(* the messages not yet delivered, those handled and those posted back.    *)
(***************************************************************************)
VARIABLES workerIn, handled, posted

msgVars == <<workerIn, handled, posted>>

(***************************************************************************)
(* State of the pass loop of resolveOverlaps on a graph given by its node  *)
(* count only: the passes run so far (TRUE for a pass that moved a node)   *)
(* and the passes after which the spatial grid was rebuilt.                *)
(***************************************************************************)
VARIABLES overlapNodes, overlapMaxIter, passes, rebuiltAfter, overlapPc

overlapVars == <<overlapNodes, overlapMaxIter, passes, rebuiltAfter, overlapPc>>

(***************************************************************************)
(* State of one pass of resolveOverlaps run both ways on the same          *)
(* positions: over the spatial grid and over all pairs.                    *)
(*   startPositions  the position map at the start of the pass             *)
(*   gridCenter      centerNodeId                                          *)
(*   spatialGrid     the cells of the SpatialGrid, built: rebuild() ran    *)
(*   gridPass        the outcome of the pass over the grid                 *)
(*   brutePass       the outcome of the pass over all pairs                *)
(***************************************************************************)
VARIABLES startPositions, gridCenter, spatialGrid, built, gridPass, brutePass

gridVars == <<startPositions, gridCenter, spatialGrid, built, gridPass, brutePass>>

(***************************************************************************)
(* State of the graph component (components/CoauthorGraph.tsx).            *)
(*   isMounted       the component is mounted (containerRef.current set)   *)
(*   isInitializing  isInitializingRef.current                             *)
(*   cyReady         cyRef.current is set                                  *)
(*   initPc          "idle", or "awaiting" while initializeCytoscape is    *)
(*                   suspended at await computeLayoutAsync                 *)
(*   initLocals      cacheKey, containerWidth, containerHeight of the      *)
(*                   suspended call                                        *)
(*   enabledTypes    the enabled publication types                         *)
(*   container       clientWidth and clientHeight of the container         *)
(*   isLargeGraph    graph.nodes.length > 150                              *)
(*   positionsFor    the module's layout cache: for every key what its     *)
(*                   positions were computed for                           *)
(*   lastHit         the last hit of getCachedLayout: the entry returned   *)
(*                   and the types and container size at that moment       *)
(***************************************************************************)
VARIABLES isMounted, isInitializing, cyReady, initPc, initLocals, enabledTypes,
          container, isLargeGraph, positionsFor, lastHit

compVars == <<isMounted, isInitializing, cyReady, initPc, initLocals, enabledTypes,
              container, isLargeGraph, positionsFor, lastHit>>

(***************************************************************************)
(* State of the rate limiter (lib/rateLimit.ts).                           *)
(*   rateLimitStore  the Map from identifier to its entry                  *)
(*   clock           Date.now(), in ticks                                  *)
(*   lastCleanup     the time the cleanup interval fired last              *)
(*   uncleaned       history: the store as it were without any cleanup     *)
(*   granted         history: per identifier the calls allowed in the      *)
(*                   window opened last                                    *)
(*   windowEnd       history: per identifier the resetTime returned by     *)
(*                   the call that opened the window last                  *)
(*   lastCall        history: the last call of checkRateLimit              *)
(***************************************************************************)
VARIABLES rateLimitStore, clock, lastCleanup, uncleaned, granted, windowEnd, lastCall

rateVars == <<rateLimitStore, clock, lastCleanup, uncleaned, granted, windowEnd, lastCall>>

\* the state of the parts added to the five above
moreVars == <<buildVars, msgVars, overlapVars, gridVars, compVars, rateVars>>

vars == <<hostVars, loopVars, pipeVars, graphVars, cacheVars, moreVars>>

NoOutcome == [kind |-> "none", of |-> Null, age |-> 0]
Outcome(k, o, a) == [kind |-> k, of |-> o, age |-> a]

Settled(r) == outcome[r].kind # "none"
Resolved(r) == outcome[r].kind \in {"sync", "result"}
Rejected(r) == outcome[r].kind \in {"syncthrow", "error", "onerror", "timeout"}

\* the event loop is free to run a macrotask
MainIdle == micro = <<>> /\ syncRunning = Null

HostFresh ==
  /\ worker = "null"
  /\ pendingResolve = Null /\ pendingReject = Null /\ pendingPromise = Null
  /\ pc = [r \in Reqs |-> "new"]
  /\ nodesLen = [r \in Reqs |-> 0]
  /\ waitOn = [r \in Reqs |-> Null]
  /\ outcome = [r \in Reqs |-> NoOutcome]
  /\ timers = <<>>
  /\ age = [r \in Reqs |-> 0]
  /\ clearOn = [r \in Reqs |-> Null]
  /\ wq = <<>> /\ inbox = <<>>
  /\ micro = <<>> /\ syncRunning = Null

HostInit == hasWindow \in BOOLEAN /\ HostFresh

(***************************************************************************)
(* getWorker: the module's worker after the call. With no window the       *)
(* variable is left alone; a missing worker is constructed unless the      *)
(* constructor throws (ctorOk = FALSE).                                    *)
(***************************************************************************)
getWorker(ctorOk, healthy) ==
  IF ~hasWindow THEN worker
  ELSE IF worker = "null"
       THEN IF ctorOk THEN (IF healthy THEN "live" ELSE "faulty") ELSE "null"
       ELSE worker

\* getWorker's return value is null
getWorkerNull(ctorOk, healthy) ==
  \/ ~hasWindow
  \/ getWorker(ctorOk, healthy) = "null"

\* the threshold test with the boundary one node too low
BelowThreshold_OffByOne(n) == n < WORKER_THRESHOLD - 1

\* line 86: the request is computed inline
BelowThreshold(n) == n < WORKER_THRESHOLD

(***************************************************************************)
(* Settling the promise of request q with outcome oc: the callers awaiting *)
(* it are queued as microtasks in the order they awaited, and the timers   *)
(* whose clearTimeout was attached to it with finally() are cleared.       *)
(***************************************************************************)
Waiters(q) == {r \in Reqs : pc[r] = "waiting" /\ waitOn[r] = q}
ClearedBy(q) == {r \in Reqs : clearOn[r] = q}

\* a settlement that forgets to reset pendingPromise
SettlePending_KeepsPromise(q, oc, ts) ==
  /\ outcome' = [outcome EXCEPT ![q] = oc]
  /\ pc' = [r \in Reqs |-> IF r = q THEN "done"
                           ELSE IF r \in Waiters(q) THEN "ready" ELSE pc[r]]
  /\ waitOn' = [r \in Reqs |-> IF r \in Waiters(q) THEN Null ELSE waitOn[r]]
  /\ micro' = micro \o SortedSeq(Waiters(q))
  /\ timers' = Without(ts, ClearedBy(q))
  /\ clearOn' = [r \in Reqs |-> IF r \in Range(timers') THEN clearOn[r] ELSE Null]
  /\ pendingResolve' = Null
  /\ pendingReject' = Null
  /\ pendingPromise' = pendingPromise

SettlePending(q, oc, ts) ==
  /\ outcome' = [outcome EXCEPT ![q] = oc]
  /\ pc' = [r \in Reqs |-> IF r = q THEN "done"
                           ELSE IF r \in Waiters(q) THEN "ready" ELSE pc[r]]
  /\ waitOn' = [r \in Reqs |-> IF r \in Waiters(q) THEN Null ELSE waitOn[r]]
  /\ micro' = micro \o SortedSeq(Waiters(q))
  /\ timers' = Without(ts, ClearedBy(q))
  /\ clearOn' = [r \in Reqs |-> IF r \in Range(timers') THEN clearOn[r] ELSE Null]
  /\ pendingResolve' = Null
  /\ pendingReject' = Null
  /\ pendingPromise' = Null

(***************************************************************************)
(* Lines 110-137: the promise executor and the assignment of               *)
(* pendingPromise. pendingPromise?.finally(...) runs inside the executor,  *)
(* so it reads the value pendingPromise had before this request.           *)
(***************************************************************************)
PostCompute(r) ==
  /\ pendingResolve' = r
  /\ pendingReject' = r
  /\ timers' = Append(timers, r)
  /\ age' = [age EXCEPT ![r] = 0]
  /\ wq' = Append(wq, r)
  /\ clearOn' = [clearOn EXCEPT ![r] = pendingPromise]
  /\ pendingPromise' = r
  /\ pc' = [pc EXCEPT ![r] = "posted"]

(***************************************************************************)
(* computeLayoutAsync, up to its first suspension.                         *)
(***************************************************************************)
computeLayoutAsync(r, n, ctorOk, healthy) ==
  /\ MainIdle
  /\ pc[r] = "new"
  /\ \A q \in Reqs : q < r => pc[q] # "new"
  /\ nodesLen' = [nodesLen EXCEPT ![r] = n]
  /\ IF BelowThreshold(n)
     THEN /\ pc' = [pc EXCEPT ![r] = "import"]
          /\ UNCHANGED <<worker, pendingResolve, pendingReject, pendingPromise,
                         waitOn, timers, age, clearOn, wq>>
     ELSE /\ worker' = getWorker(ctorOk, healthy)
          /\ IF getWorkerNull(ctorOk, healthy)
             THEN /\ pc' = [pc EXCEPT ![r] = "import"]
                  /\ UNCHANGED <<pendingResolve, pendingReject, pendingPromise,
                                 waitOn, timers, age, clearOn, wq>>
             ELSE IF pendingPromise # Null
                  THEN /\ pc' = [pc EXCEPT ![r] = "waiting"]
                       /\ waitOn' = [waitOn EXCEPT ![r] = pendingPromise]
                       /\ UNCHANGED <<pendingResolve, pendingReject,
                                      pendingPromise, timers, age, clearOn, wq>>
                  ELSE /\ PostCompute(r)
                       /\ UNCHANGED waitOn
  /\ UNCHANGED <<hasWindow, outcome, inbox, micro, syncRunning>>

Call ==
  /\ \E r \in Reqs, n \in NodeCounts, ctorOk \in BOOLEAN, healthy \in BOOLEAN :
       computeLayoutAsync(r, n, ctorOk, healthy)
  /\ UNCHANGED <<loopVars, pipeVars, graphVars, cacheVars, moreVars>>

(***************************************************************************)
(* The continuation after `await pendingPromise` (lines 104-137).          *)
(***************************************************************************)
Resume ==
  /\ micro # <<>>
  /\ syncRunning = Null
  /\ LET r == Head(micro) IN
       /\ PostCompute(r)
       /\ micro' = Tail(micro)
  /\ UNCHANGED <<hasWindow, worker, nodesLen, waitOn, outcome, inbox,
                 syncRunning>>
  /\ UNCHANGED <<loopVars, pipeVars, graphVars, cacheVars, moreVars>>

(***************************************************************************)
(* The synchronous route: after `await import('./fastLayout')` the call    *)
(* runs computeFastLayout on the caller's thread and settles with what it  *)
(* returns or throws.                                                      *)
(***************************************************************************)
SyncBegin ==
  /\ MainIdle
  /\ \E r \in Reqs :
       /\ pc[r] = "import"
       /\ pc' = [pc EXCEPT ![r] = "sync"]
       /\ syncRunning' = r
  /\ UNCHANGED <<hasWindow, worker, pendingResolve, pendingReject, pendingPromise,
                 nodesLen, waitOn, outcome, timers, age, clearOn, wq,
                 inbox, micro>>
  /\ UNCHANGED <<loopVars, pipeVars, graphVars, cacheVars, moreVars>>

SyncEnd ==
  /\ syncRunning # Null
  /\ \E k \in {"sync", "syncthrow"} :
       outcome' = [outcome EXCEPT ![syncRunning] = Outcome(k, syncRunning, 0)]
  /\ pc' = [pc EXCEPT ![syncRunning] = "done"]
  /\ syncRunning' = Null
  /\ UNCHANGED <<hasWindow, worker, pendingResolve, pendingReject, pendingPromise,
                 nodesLen, waitOn, timers, age, clearOn, wq, inbox, micro>>
  /\ UNCHANGED <<loopVars, pipeVars, graphVars, cacheVars, moreVars>>

(***************************************************************************)
(* worker.onmessage (lines 42-55).                                         *)
(***************************************************************************)
\* the request a message of this type settles, Null when it is dropped
OnMessageTarget(type) ==
  IF type = "result" /\ pendingResolve # Null THEN pendingResolve
  ELSE IF type = "error" /\ pendingReject # Null THEN pendingReject
  ELSE Null

HostOnMessage ==
  /\ MainIdle
  /\ inbox # <<>>
  /\ inbox' = Tail(inbox)
  /\ LET m == Head(inbox)
         q == OnMessageTarget(m.type)
     IN  IF q # Null
         THEN SettlePending(q, Outcome(m.type, m.of, 0), timers)
         ELSE UNCHANGED <<outcome, pc, waitOn, micro, timers, clearOn,
                          pendingResolve, pendingReject, pendingPromise>>
  /\ UNCHANGED <<hasWindow, worker, nodesLen, age, wq, syncRunning>>
  /\ UNCHANGED <<loopVars, pipeVars, graphVars, cacheVars, moreVars>>

(***************************************************************************)
(* worker.onerror (lines 56-63): the error event of a worker whose script  *)
(* failed.                                                                 *)
(***************************************************************************)
HostOnError ==
  /\ MainIdle
  /\ worker = "faulty"
  /\ worker' = "dead"
  /\ IF pendingReject # Null
     THEN SettlePending(pendingReject, Outcome("onerror", Null, 0), timers)
     ELSE UNCHANGED <<outcome, pc, waitOn, micro, timers, clearOn,
                      pendingResolve, pendingReject, pendingPromise>>
  /\ UNCHANGED <<hasWindow, nodesLen, age, wq, inbox, syncRunning>>
  /\ UNCHANGED <<loopVars, pipeVars, graphVars, cacheVars, moreVars>>

(***************************************************************************)
(* The timeout callback of request r (lines 115-122). Timers all have the  *)
(* same delay, so they expire in the order they were set.                  *)
(***************************************************************************)
Expired(r) == age[r] >= LAYOUT_TIMEOUT

\* the request the timeout callback rejects, Null when it does nothing
TimeoutTarget(r) == pendingReject

TimerFire ==
  /\ MainIdle
  /\ timers # <<>>
  /\ LET r == Head(timers)
         q == TimeoutTarget(r)
     IN  /\ Expired(r)
         /\ IF q # Null
            THEN SettlePending(q, Outcome("timeout", r, age[q]), Tail(timers))
            ELSE /\ timers' = Tail(timers)
                 /\ clearOn' = [clearOn EXCEPT ![r] = Null]
                 /\ UNCHANGED <<outcome, pc, waitOn, micro, pendingResolve,
                                pendingReject, pendingPromise>>
         /\ age' = [age EXCEPT ![r] = 0]
  /\ UNCHANGED <<hasWindow, worker, nodesLen, wq, inbox, syncRunning>>
  /\ UNCHANGED <<loopVars, pipeVars, graphVars, cacheVars, moreVars>>

\* time passes for every armed timer
Tick ==
  /\ \E r \in Range(timers) : ~Expired(r)
  /\ age' = [r \in Reqs |-> IF r \in Range(timers)
                            THEN Min(age[r] + TickMs, LAYOUT_TIMEOUT)
                            ELSE age[r]]
  /\ UNCHANGED <<hasWindow, worker, pendingResolve, pendingReject, pendingPromise,
                 pc, nodesLen, waitOn, outcome, timers, clearOn, wq,
                 inbox, micro, syncRunning>>
  /\ UNCHANGED <<loopVars, pipeVars, graphVars, cacheVars, moreVars>>

(***************************************************************************)
(* terminateLayoutWorker (lines 150-158). A terminated worker computes     *)
(* nothing more and none of its messages is delivered.                     *)
(***************************************************************************)
terminateLayoutWorker ==
  /\ MainIdle
  /\ worker # "null"
  /\ worker' = "null"
  /\ pendingResolve' = Null
  /\ pendingReject' = Null
  /\ pendingPromise' = Null
  /\ wq' = <<>> /\ inbox' = <<>>
  /\ UNCHANGED <<hasWindow, pc, nodesLen, waitOn, outcome, timers, age, clearOn,
                 micro, syncRunning>>
  /\ UNCHANGED <<loopVars, pipeVars, graphVars, cacheVars, moreVars>>

(***************************************************************************)
(* The worker thread: self.onmessage of layout.worker.ts runs              *)
(* computeLayout for the oldest compute message and posts 'result', or     *)
(* 'error' when computeLayout throws.                                      *)
(***************************************************************************)
\* the request whose compute message the worker thread is computing
WorkerComputing == IF worker = "live" /\ wq # <<>> THEN Head(wq) ELSE Null

WorkerFinish ==
  /\ WorkerComputing # Null
  /\ \E t \in {"result", "error"} :
       inbox' = Append(inbox, [type |-> t, of |-> Head(wq)])
  /\ wq' = Tail(wq)
  /\ UNCHANGED <<hasWindow, worker, pendingResolve, pendingReject, pendingPromise,
                 pc, nodesLen, waitOn, outcome, timers, age, clearOn, micro,
                 syncRunning>>
  /\ UNCHANGED <<loopVars, pipeVars, graphVars, cacheVars, moreVars>>

HostNext ==
  \/ Call
  \/ Resume
  \/ SyncBegin
  \/ SyncEnd
  \/ HostOnMessage
  \/ HostOnError
  \/ TimerFire
  \/ Tick
  \/ terminateLayoutWorker
  \/ WorkerFinish

(***************************************************************************)
(* The convergence loop of computeLayout (layout.worker.ts lines 279-309)  *)
(* and of computeFastLayout (fastLayout.ts lines 452-474). The force       *)
(* simulation is a library: the displacement it causes in one batch is     *)
(* any value around the convergence threshold. Displacements and           *)
(* thresholds are kept doubled, so that 0.5 * nodeCount is a whole number. *)
(***************************************************************************)
\* node counts on both sides of every tier boundary
LoopNodeCounts == {1, 150, 200, 201, 500, 501, 1000, 1001, 1200}

\* FA2_BASE_SETTINGS (layout.worker.ts) and FA2_SETTINGS (fastLayout.ts)
FA2_BASE_SETTINGS ==
  [barnesHutTheta10 |-> 5, slowDown |-> 2, scalingRatio |-> 6, gravity10 |-> 5]
FA2_SETTINGS ==
  [barnesHutTheta10 |-> 5, slowDown |-> 2, scalingRatio |-> 6, gravity10 |-> 10]

\* the tiers with their upper bounds left out
getAdaptiveFA2Settings_Exclusive(n) ==
  IF n < 200 THEN FA2_BASE_SETTINGS
  ELSE IF n < 500
       THEN [FA2_BASE_SETTINGS EXCEPT !.barnesHutTheta10 = 6, !.slowDown = 3]
       ELSE IF n < 1000
            THEN [FA2_BASE_SETTINGS EXCEPT !.barnesHutTheta10 = 8, !.slowDown = 4,
                                           !.scalingRatio = 8]
            ELSE [FA2_BASE_SETTINGS EXCEPT !.barnesHutTheta10 = 10, !.slowDown = 5,
                                           !.scalingRatio = 10, !.gravity10 = 3]

getAdaptiveFA2Settings(n) ==
  IF n <= 200 THEN FA2_BASE_SETTINGS
  ELSE IF n <= 500
       THEN [FA2_BASE_SETTINGS EXCEPT !.barnesHutTheta10 = 6, !.slowDown = 3]
       ELSE IF n <= 1000
            THEN [FA2_BASE_SETTINGS EXCEPT !.barnesHutTheta10 = 8, !.slowDown = 4,
                                           !.scalingRatio = 8]
            ELSE [FA2_BASE_SETTINGS EXCEPT !.barnesHutTheta10 = 10, !.slowDown = 5,
                                           !.scalingRatio = 10, !.gravity10 = 3]

\* the settings of a route: computeLayout adapts them, computeFastLayout
\* uses FA2_SETTINGS
settingsFor(rt, n) ==
  IF rt = "worker" THEN getAdaptiveFA2Settings(n) ELSE FA2_SETTINGS

batchSize(rt, n) ==
  IF rt = "worker" THEN (IF n > 500 THEN 150 ELSE 100) ELSE 100

maxIterations(rt, n) ==
  IF rt = "worker"
  THEN (IF n > 1000 THEN 1500 ELSE IF n > 500 THEN 2000 ELSE 3000)
  ELSE 3000

\* twice the convergence threshold
convergenceThreshold2(rt, n) ==
  IF rt = "worker" THEN (IF n > 500 THEN 2 * n ELSE n) ELSE n

\* twice the displacements one batch may have caused
Movements2(rt, n) ==
  {m \in {0, convergenceThreshold2(rt, n) - 1, convergenceThreshold2(rt, n),
          convergenceThreshold2(rt, n) + 1} : m >= 0}

\* the loop test: while (totalIterations < maxIterations)
LoopContinues(total, ceiling) == total < ceiling

\* the convergence test with the threshold itself counted as converged
Converged_AtThreshold(movement2, threshold2) == movement2 <= threshold2

\* the test that ends the loop early: totalMovement < convergenceThreshold
Converged(movement2, threshold2) == movement2 < threshold2

LoopInit ==
  /\ route \in {"worker", "sync"}
  /\ nodeCount \in LoopNodeCounts
  /\ totalIterations = 0
  /\ totalMovement2 = 0
  /\ loopPc = "loop"
  /\ fa2Settings = settingsFor(route, nodeCount)

LoopParked ==
  /\ route = "worker"
  /\ nodeCount = 0
  /\ totalIterations = 0
  /\ totalMovement2 = 0
  /\ loopPc = "done"
  /\ fa2Settings = FA2_BASE_SETTINGS

\* one batch: forceAtlas2.assign, the iteration count and the movement test
Batch ==
  /\ loopPc = "loop"
  /\ LoopContinues(totalIterations, maxIterations(route, nodeCount))
  /\ totalIterations' = totalIterations + batchSize(route, nodeCount)
  /\ \E m \in Movements2(route, nodeCount) :
       /\ totalMovement2' = m
       /\ loopPc' = IF Converged(m, convergenceThreshold2(route, nodeCount))
                    THEN "done" ELSE "loop"
  /\ UNCHANGED <<route, nodeCount, fa2Settings>>
  /\ UNCHANGED <<hostVars, pipeVars, graphVars, cacheVars, moreVars>>

\* the loop test fails: the loop ends without convergence
LoopExit ==
  /\ loopPc = "loop"
  /\ ~LoopContinues(totalIterations, maxIterations(route, nodeCount))
  /\ loopPc' = "done"
  /\ UNCHANGED <<route, nodeCount, totalIterations, totalMovement2, fa2Settings>>
  /\ UNCHANGED <<hostVars, pipeVars, graphVars, cacheVars, moreVars>>

LoopNext == Batch \/ LoopExit

(***************************************************************************)
(* Fixed-point arithmetic of the pipeline. A coordinate c stands for       *)
(* c / Resolution pixels; quotients and square roots are rounded.          *)
(***************************************************************************)
Px(p) == p * Resolution
Abs(a) == IF a < 0 THEN -a ELSE a

\* a / b rounded to the nearest whole number, b > 0
RoundDiv(a, b) ==
  IF a >= 0 THEN (2 * a + b) \div (2 * b) ELSE -((2 * (-a) + b) \div (2 * b))

RECURSIVE SqrtBetween(_, _, _)
\* the largest r in lo..hi with r * r <= n
SqrtBetween(n, lo, hi) ==
  IF lo >= hi THEN lo
  ELSE LET mid == (lo + hi + 1) \div 2
       IN  IF mid * mid <= n THEN SqrtBetween(n, mid, hi)
           ELSE SqrtBetween(n, lo, mid - 1)

\* Math.sqrt, rounded down
Sqrt(n) == SqrtBetween(n, 0, Min(n, 46340))

\* size: 10 + Math.sqrt(node.data.paperCount || 1) * 5
SizeOf(paperCount) ==
  Px(10) + 5 * Sqrt((IF paperCount = 0 THEN 1 ELSE paperCount) * Resolution * Resolution)

(***************************************************************************)
(* Inputs of the pipeline.                                                 *)
(***************************************************************************)
\* node ids: DBLP pids (src/lib/graph.ts), which are ordinary property names
Ids == 1..MaxNodes
\* paperCount values: sizes 15 and 20
PaperCounts == {0, 4}
\* containerWidth, containerHeight in pixels
Viewports == {<<400, 400>>, <<600, 400>>}
\* simulation coordinates the force simulation may leave a free node at
SimXs == {200, 300}
SimYs == {240, 250, 300}

\* id lists of length 0..MaxNodes, each id at most one above the ids before
\* it (every pattern of repeated ids, up to renaming)
IdLists ==
  {s \in UNION {[1..k -> Ids] : k \in 0..MaxNodes} :
     \A i \in 1..Len(s) : \A v \in 1..(s[i] - 1) : \E j \in 1..(i - 1) : s[j] = v}

NodeLists ==
  {l \in UNION {[1..k -> [id : Ids, paperCount : PaperCounts]] : k \in 0..MaxNodes} :
     [i \in 1..Len(l) |-> l[i].id] \in IdLists}

NodeIds(l) == {l[i].id : i \in 1..Len(l)}
Distinct(l) == \A i, j \in 1..Len(l) : l[i].id = l[j].id => i = j

PipeInit ==
  /\ nodes \in NodeLists
  /\ centerNodeId \in 0..MaxNodes
  /\ \E v \in Viewports :
       /\ containerWidth = Px(v[1])
       /\ containerHeight = Px(v[2])
  /\ graph = <<>>
  /\ positions = <<>>
  /\ iter = 0
  /\ pipePc = "input"

PipeParked ==
  /\ nodes = <<>>
  /\ centerNodeId = 0
  /\ containerWidth = 0
  /\ containerHeight = 0
  /\ graph = <<>>
  /\ positions = <<>>
  /\ iter = 0
  /\ pipePc = "done"

(***************************************************************************)
(* createGraph and the force simulation (layout.worker.ts lines 65-105,    *)
(* 276-309): every node is added under its id (addNode throws on an id     *)
(* that is already in the graph), the center at (containerWidth / 2,       *)
(* containerHeight / 2) with fixed = true; the simulation leaves a fixed   *)
(* node where it is and a free node anywhere.                              *)
(***************************************************************************)
\* the places the force simulation may leave a free node at
SimPlaces == [x : {Px(c) : c \in SimXs}, y : {Px(c) : c \in SimYs}]

\* where node id is after the simulation that left free nodes at place p
SimulatedAt(id, p, center, w, h) ==
  IF id = center THEN [x |-> w \div 2, y |-> h \div 2] ELSE p

Simulate ==
  /\ pipePc = "input"
  /\ IF Distinct(nodes)
     THEN /\ pipePc' = "simulated"
          /\ \E p \in [1..Len(nodes) -> SimPlaces] :
               graph' = [i \in 1..Len(nodes) |->
                           LET at == SimulatedAt(nodes[i].id, p[i], centerNodeId,
                                                 containerWidth, containerHeight)
                           IN  [id |-> nodes[i].id, x |-> at.x, y |-> at.y]]
     ELSE /\ pipePc' = "threw"
          /\ graph' = graph
  /\ UNCHANGED <<nodes, centerNodeId, containerWidth, containerHeight, positions,
                 iter>>
  /\ UNCHANGED <<hostVars, loopVars, graphVars, cacheVars, moreVars>>

(***************************************************************************)
(* scalePositions (layout.worker.ts lines 107-147).                        *)
(***************************************************************************)
SetMin(S) == CHOOSE x \in S : \A y \in S : x <= y
SetMax(S) == CHOOSE x \in S : \A y \in S : x >= y

\* the entry of the position map for one node: the center is set to the
\* viewport center, every other node is scaled and shifted
ScaledEntry(id, scaledX, scaledY, center, w, h) ==
  IF id = center THEN [x |-> w \div 2, y |-> h \div 2]
  ELSE [x |-> scaledX, y |-> scaledY]

\* the value that stands for NaN and for +-Infinity
NotFinite == -(2 ^ 30)
Finite(v) == v # NotFinite

\* the denominator taken as it is, zero included
OrOne_Keep(d) == d

\* (d || 1): a zero extent is replaced by one pixel
OrOne(d) == IF d = 0 THEN Px(1) ELSE d

\* the second forEachNode loop starting one node late
ScaledKeys_SkipFirst(g) == {g[i].id : i \in 2..Len(g)}

\* the ids scalePositions writes an entry for
ScaledKeys(g) == {g[i].id : i \in 1..Len(g)}

\* the larger of the two axis factors taken for the scale
ScaleXIsSmaller_Larger(numX, denX, numY, denY) == numX * denY >= numY * denX

\* scaleX <= scaleY, for scaleX = numX / denX and scaleY = numY / denY
ScaleXIsSmaller(numX, denX, numY, denY) == numX * denY <= numY * denX

\* the bounding box of the simulated graph g and scale = Math.min(scaleX,
\* scaleY), kept as the fraction sn / sd
Scaling(g, w, h) ==
  LET xs == {g[i].x : i \in 1..Len(g)}
      ys == {g[i].y : i \in 1..Len(g)}
      minX == SetMin(xs)
      maxX == SetMax(xs)
      minY == SetMin(ys)
      maxY == SetMax(ys)
      padding == Px(80)
      \* (maxX - minX || 1), (maxY - minY || 1)
      denX == OrOne(maxX - minX)
      denY == OrOne(maxY - minY)
      numX == w - 2 * padding
      numY == h - 2 * padding
      xIsMin == ScaleXIsSmaller(numX, denX, numY, denY)
  IN  [minX |-> minX, maxX |-> maxX, minY |-> minY, maxY |-> maxY,
       sn |-> IF xIsMin THEN numX ELSE numY,
       sd |-> IF xIsMin THEN denX ELSE denY]

\* (attrs.x * scale + offsetX, attrs.y * scale + offsetY) for the simulation
\* coordinates p; a division by zero gives no finite value
ScaledPoint(t, w, h, p) ==
  [x |-> IF t.sd = 0 THEN NotFinite
         ELSE RoundDiv(2 * (p.x - t.minX) * t.sn + w * t.sd - (t.maxX - t.minX) * t.sn,
                       2 * t.sd),
   y |-> IF t.sd = 0 THEN NotFinite
         ELSE RoundDiv(2 * (p.y - t.minY) * t.sn + h * t.sd - (t.maxY - t.minY) * t.sn,
                       2 * t.sd)]

scalePositions(g, w, h, center) ==
  IF g = <<>> THEN <<>>
  ELSE
    LET t == Scaling(g, w, h)
        at(id) == CHOOSE i \in 1..Len(g) : g[i].id = id
    IN  [id \in ScaledKeys(g) |->
           ScaledEntry(id, ScaledPoint(t, w, h, g[at(id)]).x,
                       ScaledPoint(t, w, h, g[at(id)]).y, center, w, h)]

(***************************************************************************)
(* resolveOverlaps (layout.worker.ts lines 197-266), called by             *)
(* computeLayout with minDistance = nodeCount > 500 ? 10 : 15 and          *)
(* maxIterations = 50.                                                     *)
(***************************************************************************)
minDistanceFor(n) == IF n > 500 THEN Px(10) ELSE Px(15)

\* Math.floor(100 / Math.log10(n)) for n > 500
HundredOverLog10(n) ==
  LET upTo == <<504, 599, 719, 873, 1072, 1333, 1681, 2154, 2807, 3727, 5054,
                7017, 10000, 14677, 22275, 35111, 57796>>
      below == {k \in 1..Len(upTo) : n <= upTo[k]}
  IN  IF below = {} THEN 20 ELSE 38 - SetMin(below)

\* the pass budget
overlapIterations(n, maxIter) ==
  IF n > 500 THEN Min(maxIter, Max(20, HundredOverLog10(n))) ELSE maxIter

\* the minDistance a route hands to resolveOverlaps: computeLayout
\* nodeCount > 500 ? 10 : 15, computeFastLayout 5
overlapMinDistance(rt, n) == IF rt = "worker" THEN minDistanceFor(n) ELSE Px(5)

\* the pass budget of a route with maxIterations 50: the resolveOverlaps of
\* fastLayout.ts runs its iterations argument unchanged
overlapBudget(rt, n) == IF rt = "worker" THEN overlapIterations(n, 50) ELSE 50

\* nodeSizes
nodeSizes(l) == [id \in NodeIds(l) |->
                   SizeOf(l[CHOOSE i \in 1..Len(l) : l[i].id = id].paperCount)]

\* the push of idB without the test for the center
MovesB_Always(idB, center) == TRUE

\* node idB is pushed too: it is not the center
MovesB(idB, center) == idB # center

\* the push of idA applied once although idB is the center
Doubled_Single(push) == push

\* pushX * 2, pushY * 2: idA takes the push of both nodes
Doubled(push) == 2 * push

\* the check of one ordered pair (idA, idB) in a pass: st = [pos, moved]
CorrectPair(st, idA, idB, sizes, center, minDistance) ==
  LET posA == st.pos[idA]
      posB == st.pos[idB]
      dx == posB.x - posA.x
      dy == posB.y - posA.y
      distSq == dx * dx + dy * dy
      minDist == (sizes[idA] + sizes[idB]) \div 2 + minDistance
  IN  IF distSq < minDist * minDist /\ distSq > 0
      THEN LET dist == Sqrt(distSq)
               overlap == minDist - dist
               pushX == RoundDiv(dx * overlap, 2 * dist)
               pushY == RoundDiv(dy * overlap, 2 * dist)
           IN  IF MovesB(idB, center)
               THEN [pos |-> [st.pos EXCEPT
                                ![idA] = [x |-> posA.x - pushX, y |-> posA.y - pushY],
                                ![idB] = [x |-> posB.x + pushX, y |-> posB.y + pushY]],
                     moved |-> TRUE]
               ELSE [pos |-> [st.pos EXCEPT
                                ![idA] = [x |-> posA.x - Doubled(pushX),
                                          y |-> posA.y - Doubled(pushY)]],
                     moved |-> TRUE]
      ELSE st

RECURSIVE PassFrom(_, _, _, _, _, _, _)
\* the rest of one pass, from the pair (ids[i], ids[j]) on: idA runs over
\* the keys of the position map except the center, idB over every other key
PassFrom(st, ids, i, j, sizes, center, minDistance) ==
  IF i > Len(ids) THEN st
  ELSE IF ids[i] = center \/ j > Len(ids)
       THEN PassFrom(st, ids, i + 1, 1, sizes, center, minDistance)
       ELSE IF j = i
            THEN PassFrom(st, ids, i, j + 1, sizes, center, minDistance)
            ELSE PassFrom(CorrectPair(st, ids[i], ids[j], sizes, center, minDistance),
                          ids, i, j + 1, sizes, center, minDistance)

\* Object.keys(positions): the ids in insertion order
KeysOf(g) == [i \in 1..Len(g) |-> g[i].id]

Scale ==
  /\ pipePc = "simulated"
  /\ positions' = scalePositions(graph, containerWidth, containerHeight, centerNodeId)
  /\ iter' = 0
  /\ pipePc' = "resolving"
  /\ UNCHANGED <<nodes, centerNodeId, containerWidth, containerHeight, graph>>
  /\ UNCHANGED <<hostVars, loopVars, graphVars, cacheVars, moreVars>>

\* one pass of resolveOverlaps; the loop ends after a pass that moved
\* nothing or when the pass budget is used up
Pass ==
  /\ pipePc = "resolving"
  /\ LET budget == overlapIterations(Len(nodes), 50)
         st == IF iter < budget
               THEN PassFrom([pos |-> positions, moved |-> FALSE], KeysOf(graph),
                             1, 1, nodeSizes(nodes), centerNodeId,
                             minDistanceFor(Len(nodes)))
               ELSE [pos |-> positions, moved |-> FALSE]
     IN  /\ positions' = st.pos
         /\ iter' = IF iter < budget THEN iter + 1 ELSE iter
         /\ pipePc' = IF st.moved THEN "resolving" ELSE "done"
  /\ UNCHANGED <<nodes, centerNodeId, containerWidth, containerHeight, graph>>
  /\ UNCHANGED <<hostVars, loopVars, graphVars, cacheVars, moreVars>>

PipeNext == Simulate \/ Scale \/ Pass

(***************************************************************************)
(* createGraph (layout.worker.ts lines 65-105, the same code as            *)
(* layoutCore.ts lines 91-126), one list element per step.                 *)
(***************************************************************************)
\* seededRandom(seed) in ten-thousandths, rounded down, for the seeds
\* i * 13.37 and i * 42.42 + 100 of the node indexes 0..5; the seed is given
\* in hundredths
seededRandom(seed100) ==
  CASE seed100 = 0 -> 0
    [] seed100 = 1337 -> 7997
    [] seed100 = 2674 -> 3531
    [] seed100 = 4011 -> 9444
    [] seed100 = 5348 -> 3973
    [] seed100 = 6685 -> 6114
    [] seed100 = 10000 -> 3435
    [] seed100 = 14242 -> 863
    [] seed100 = 18484 -> 3519
    [] seed100 = 22726 -> 4825
    [] seed100 = 26968 -> 3730
    [] seed100 = 31210 -> 4766

\* the spread taken as half the smaller side
spread_Half(w, h) == Min(w, h) \div 2

\* spread = Math.min(containerWidth, containerHeight) * 0.4
spread(w, h) == RoundDiv(Min(w, h) * 4, 10)

\* center + (rand - 0.5) * spread * 2
Scatter(c, rand, sp) == c + RoundDiv((2 * rand - 10000) * sp, 10000)

\* the attributes graph.addNode is called with for the node at index i
\* (from 0) of the list
NodeAttrs(node, i, center, w, h) ==
  LET isCenter == node.id = center
      rand1 == seededRandom(i * 1337)
      rand2 == seededRandom(i * 4242 + 10000)
  IN  [id |-> node.id,
       x |-> IF isCenter THEN w \div 2 ELSE Scatter(w \div 2, rand1, spread(w, h)),
       y |-> IF isCenter THEN h \div 2 ELSE Scatter(h \div 2, rand2, spread(w, h)),
       size |-> SizeOf(node.paperCount),
       fixed |-> isCenter]

\* graph.hasNode, graph.hasEdge (a directed edge from source to target)
hasNode(gn, id) == \E k \in 1..Len(gn) : gn[k].id = id
hasEdge(ge, source, target) ==
  \E k \in 1..Len(ge) : ge[k].source = source /\ ge[k].target = target

\* the test of the source alone
EndsKnown_SourceOnly(gn, source, target) == hasNode(gn, source)

\* graph.hasNode(source) && graph.hasNode(target)
EndsKnown(gn, source, target) == hasNode(gn, source) /\ hasNode(gn, target)

\* an id that no node has
UnknownId == MaxNodes + 1
\* ids an edge may name
EdgeEnds == {1, 2, UnknownId}
\* edge.data.weight
Weights == {4}
EdgeLists ==
  UNION {[1..k -> [source : EdgeEnds, target : EdgeEnds, weight : Weights]] :
           k \in 0..MaxEdges}

\* node lists of the construction: every paperCount is 0
GraphNodeLists == {l \in NodeLists : \A i \in 1..Len(l) : l[i].paperCount = 0}

GraphInit ==
  /\ nodes \in GraphNodeLists
  /\ centerNodeId \in 0..MaxNodes
  /\ containerWidth = Px(600)
  /\ containerHeight = Px(400)
  /\ graph = <<>>
  /\ positions = <<>>
  /\ iter = 0
  /\ pipePc = "input"
  /\ edges \in EdgeLists
  /\ simNodes = <<>>
  /\ simEdges = <<>>
  /\ gPc = "nodes"
  /\ gi = 0
  /\ runNo = 1
  /\ firstNodes = <<>>

GraphParked ==
  /\ edges = <<>>
  /\ simNodes = <<>>
  /\ simEdges = <<>>
  /\ gPc = "done"
  /\ gi = 0
  /\ runNo = 2
  /\ firstNodes = <<>>

\* one call of the nodes.forEach callback: graph.addNode throws on an id
\* that is already in the graph
AddNode ==
  /\ gPc = "nodes"
  /\ gi < Len(nodes)
  /\ LET node == nodes[gi + 1] IN
       IF hasNode(simNodes, node.id)
       THEN /\ gPc' = "threw"
            /\ UNCHANGED <<simNodes, gi>>
       ELSE /\ simNodes' = Append(simNodes, NodeAttrs(node, gi, centerNodeId,
                                                      containerWidth, containerHeight))
            /\ gi' = gi + 1
            /\ gPc' = gPc
  /\ UNCHANGED <<edges, simEdges, runNo, firstNodes>>
  /\ UNCHANGED <<hostVars, loopVars, pipeVars, cacheVars, moreVars>>

\* nodes.forEach is over
NodesDone ==
  /\ gPc = "nodes"
  /\ gi = Len(nodes)
  /\ gPc' = "edges"
  /\ gi' = 0
  /\ UNCHANGED <<edges, simNodes, simEdges, runNo, firstNodes>>
  /\ UNCHANGED <<hostVars, loopVars, pipeVars, cacheVars, moreVars>>

\* one call of the edges.forEach callback; a new Graph() accepts an edge
\* from a node to itself
AddEdge ==
  /\ gPc = "edges"
  /\ gi < Len(edges)
  /\ LET edge == edges[gi + 1] IN
       IF /\ EndsKnown(simNodes, edge.source, edge.target)
          /\ ~hasEdge(simEdges, edge.source, edge.target)
       THEN simEdges' = Append(simEdges, [source |-> edge.source,
                                          target |-> edge.target,
                                          weight |-> Sqrt(edge.weight)])
       ELSE simEdges' = simEdges
  /\ gi' = gi + 1
  /\ UNCHANGED <<edges, simNodes, gPc, runNo, firstNodes>>
  /\ UNCHANGED <<hostVars, loopVars, pipeVars, cacheVars, moreVars>>

\* edges.forEach is over: createGraph returns the graph
EdgesDone ==
  /\ gPc = "edges"
  /\ gi = Len(edges)
  /\ gPc' = "done"
  /\ UNCHANGED <<edges, simNodes, simEdges, gi, runNo, firstNodes>>
  /\ UNCHANGED <<hostVars, loopVars, pipeVars, cacheVars, moreVars>>

\* createGraph is called a second time with the same arguments
RunAgain ==
  /\ gPc = "done"
  /\ runNo = 1
  /\ runNo' = 2
  /\ firstNodes' = simNodes
  /\ simNodes' = <<>>
  /\ simEdges' = <<>>
  /\ gPc' = "nodes"
  /\ gi' = 0
  /\ UNCHANGED edges
  /\ UNCHANGED <<hostVars, loopVars, pipeVars, cacheVars, moreVars>>

GraphNext == AddNode \/ NodesDone \/ AddEdge \/ EdgesDone \/ RunAgain

(***************************************************************************)
(* The layout cache (CoauthorGraph.tsx lines 16-43). A Map keeps its keys  *)
(* in insertion order; set() on a key already present keeps its place.     *)
(* Keys are the non-empty strings of getFilterKey. The code treats every   *)
(* key alike, so a call with a key that is not in the cache uses the       *)
(* smallest such key.                                                      *)
(***************************************************************************)
MAX_CACHE_SIZE == 20

CacheKeys == 1..(MAX_CACHE_SIZE + 1)

\* the key of a call with a key that is not in the cache
AbsentKey == CHOOSE k \in CacheKeys \ Range(layoutCache) :
               \A j \in CacheKeys \ Range(layoutCache) : k <= j

\* the keys a call may be made with: a key that is not in the cache, the
\* key the Map holds first and the key it holds last
CallKeys ==
  {AbsentKey} \cup {layoutCache[i] : i \in {1, Len(layoutCache)} \cap DOMAIN layoutCache}

\* the eviction test passing only above the limit
CacheFull_Above(size) == size > MAX_CACHE_SIZE

\* layoutCache.size >= MAX_CACHE_SIZE
CacheFull(size) == size >= MAX_CACHE_SIZE

\* Map.set(key, value) on the key order
MapSet(m, key) == IF key \in Range(m) THEN m ELSE Append(m, key)

\* the key order after cacheLayout(key)
cacheLayout(key) ==
  LET evicted == IF CacheFull(Len(layoutCache)) THEN Tail(layoutCache)
                 ELSE layoutCache
  IN  MapSet(evicted, key)

\* the key order after getCachedLayout(key)
getCachedLayout(key) ==
  IF key \in Range(layoutCache)
  THEN MapSet(Without(layoutCache, {key}), key)
  ELSE layoutCache

\* the history of last uses after a call with key that left the cache as c
Used(key, c) ==
  IF key \in Range(c)
  THEN Append(Without(lastUse, {key} \cup (Range(lastUse) \ Range(c))), key)
  ELSE lastUse

CacheInit ==
  /\ layoutCache = <<>>
  /\ lastUse = <<>>
  /\ touches = 0

Write ==
  /\ \E key \in CallKeys :
       /\ key \in Range(layoutCache) => touches < MaxTouches
       /\ layoutCache' = cacheLayout(key)
       /\ lastUse' = Used(key, cacheLayout(key))
       /\ touches' = IF key \in Range(layoutCache) THEN touches + 1 ELSE touches
  /\ UNCHANGED <<hostVars, loopVars, pipeVars, graphVars, moreVars>>

Read ==
  /\ \E key \in CallKeys :
       /\ key \in Range(layoutCache) => touches < MaxTouches
       /\ layoutCache' = getCachedLayout(key)
       /\ lastUse' = Used(key, getCachedLayout(key))
       /\ touches' = IF key \in Range(layoutCache) THEN touches + 1 ELSE touches
  /\ UNCHANGED <<hostVars, loopVars, pipeVars, graphVars, moreVars>>

CacheNext == Write \/ Read

(***************************************************************************)
(* The graph builders buildCoauthorGraph (graph.ts lines 31-107) and       *)
(* rebuildGraphFromPublications (graph.ts lines 299-367) with              *)
(* extractCoauthors (dblp.ts lines 274-321), one author per step. A        *)
(* publication is the list of its authors, or has no authors field; an     *)
(* author has a "@pid" (empty when DBLP gave none) and a text.             *)
(***************************************************************************)
\* publications of one request
MaxPubs == 2

\* name.toLowerCase().replace(/[^a-z0-9]+/g, "-").replace(/^-|-$/g, "")
slugify(text) ==
  CASE text = "Ann Lee" -> "ann-lee"
    [] text = "ann  lee" -> "ann-lee"
    [] text = "Bo Chen 0001" -> "bo-chen-0001"
    [] text = "" -> ""

\* the PIDs of center authors (they match PID_PATTERN of the graph route)
CenterPids == {"c/1", "c/2"}

\* the authors a publication may list
Authors ==
  {[pid |-> "c/1", text |-> "Ann Lee"], [pid |-> "c/2", text |-> "Bo Chen 0001"],
   [pid |-> "", text |-> "Ann Lee"], [pid |-> "", text |-> "ann  lee"],
   [pid |-> "", text |-> ""]}

\* pub.info.authors: missing, or a list of one or two authors (a single
\* author object is wrapped into a list)
Publications ==
  {[hasAuthors |-> FALSE, author |-> <<>>]}
    \cup {[hasAuthors |-> TRUE, author |-> l] : l \in UNION {[1..k -> Authors] : k \in 1..2}}

PublicationLists == UNION {[1..k -> Publications] : k \in 0..MaxPubs}

\* author["@pid"] || slugify(author.text)
AuthorPid(author) == IF author.pid # "" THEN author.pid ELSE slugify(author.text)

\* the center author taken for a coauthor
IsCenterAuthor_Never(authorPid, center) == FALSE

\* authorPid === centerPid
IsCenterAuthor(authorPid, center) == authorPid = center

\* the keys of the coauthors Map in insertion order
MapKeys(m) == {m[i].pid : i \in 1..Len(m)}

\* one round of the inner loop of extractCoauthors on the Map m
Extracted(m, author, center) ==
  LET authorPid == AuthorPid(author)
  IN  IF IsCenterAuthor(authorPid, center) THEN m
      ELSE IF authorPid \in MapKeys(m)
           THEN [i \in 1..Len(m) |->
                   IF m[i].pid = authorPid
                   THEN [m[i] EXCEPT !.papers = m[i].papers + 1]
                   ELSE m[i]]
           ELSE Append(m, [pid |-> authorPid, papers |-> 1])

BuildInit ==
  /\ builder \in {"buildCoauthorGraph", "rebuildGraphFromPublications"}
  /\ centerPid \in CenterPids
  /\ publications \in PublicationLists
  /\ bPc = "extract"
  /\ pubIdx = 1
  /\ authIdx = 1
  /\ coauthorsMap = <<>>
  /\ builtNodes = <<>>

BuildParked ==
  /\ builder = "rebuildGraphFromPublications"
  /\ centerPid = "c/1"
  /\ publications = <<>>
  /\ bPc = "done"
  /\ pubIdx = 1
  /\ authIdx = 1
  /\ coauthorsMap = <<>>
  /\ builtNodes = <<>>

\* the framing of an action of the builders
BuildFrame ==
  UNCHANGED <<hostVars, loopVars, pipeVars, graphVars, cacheVars, msgVars, overlapVars,
              gridVars, compVars, rateVars>>

\* for (const author of authors): one author
ExtractAuthor ==
  /\ bPc = "extract"
  /\ pubIdx <= Len(publications)
  /\ publications[pubIdx].hasAuthors
  /\ authIdx <= Len(publications[pubIdx].author)
  /\ coauthorsMap' = Extracted(coauthorsMap, publications[pubIdx].author[authIdx], centerPid)
  /\ authIdx' = authIdx + 1
  /\ UNCHANGED <<builder, centerPid, publications, bPc, pubIdx, builtNodes>>
  /\ BuildFrame

\* for (const pub of publications): the next publication, after the last
\* author or at once when the publication has no authors
NextPub ==
  /\ bPc = "extract"
  /\ pubIdx <= Len(publications)
  /\ ~publications[pubIdx].hasAuthors \/ authIdx > Len(publications[pubIdx].author)
  /\ pubIdx' = pubIdx + 1
  /\ authIdx' = 1
  /\ UNCHANGED <<builder, centerPid, publications, bPc, coauthorsMap, builtNodes>>
  /\ BuildFrame

\* the nodes array: the center first, then one node per entry of the Map
BuildNodes ==
  /\ bPc = "extract"
  /\ pubIdx > Len(publications)
  /\ builtNodes' =
       <<[id |-> centerPid, paperCount |-> Len(publications), isCenter |-> TRUE]>>
         \o [i \in 1..Len(coauthorsMap) |->
               [id |-> coauthorsMap[i].pid, paperCount |-> coauthorsMap[i].papers,
                isCenter |-> FALSE]]
  /\ bPc' = "done"
  /\ UNCHANGED <<builder, centerPid, publications, pubIdx, authIdx, coauthorsMap>>
  /\ BuildFrame

BuildNext == ExtractAuthor \/ NextPub \/ BuildNodes

(***************************************************************************)
(* self.onmessage of the layout worker (layout.worker.ts lines 319-330).   *)
(* A message carries its type; for a 'compute' message computeLayout       *)
(* either returns positions or throws (createGraph throws on a repeated    *)
(* node id).                                                               *)
(***************************************************************************)
\* messages delivered to the worker in one behaviour
MaxMsgs == 4

\* the types of the messages a worker may be sent
MessageTypes == {"compute", "cancel", "none"}

WorkerMessages ==
  {[type |-> "compute", throws |-> b] : b \in BOOLEAN}
    \cup {[type |-> t, throws |-> FALSE] : t \in MessageTypes \ {"compute"}}

\* every message taken for a compute request
IsCompute_Any(type) == TRUE

\* type === 'compute'
IsCompute(type) == type = "compute"

\* the messages posted by the handler for message msg, the k-th delivered
Replies(msg, k) ==
  IF IsCompute(msg.type)
  THEN IF msg.throws
       THEN <<[type |-> "error", of |-> k]>>
       ELSE <<[type |-> "result", of |-> k]>>
  ELSE <<>>

MsgInit ==
  /\ workerIn \in UNION {[1..k -> WorkerMessages] : k \in 0..MaxMsgs}
  /\ handled = <<>>
  /\ posted = <<>>

MsgParked ==
  /\ workerIn = <<>>
  /\ handled = <<>>
  /\ posted = <<>>

\* self.onmessage on the next message delivered
WorkerOnMessage ==
  /\ workerIn # <<>>
  /\ posted' = posted \o Replies(Head(workerIn), Len(handled) + 1)
  /\ handled' = Append(handled, Head(workerIn))
  /\ workerIn' = Tail(workerIn)
  /\ UNCHANGED <<hostVars, loopVars, pipeVars, graphVars, cacheVars, buildVars, overlapVars,
                 gridVars, compVars, rateVars>>

MsgNext == WorkerOnMessage

(***************************************************************************)
(* The pass loop of resolveOverlaps (layout.worker.ts lines 197-266, the   *)
(* same code as layoutCore.ts lines 236-318) for graphs of any size.       *)
(* Whether a pass moves a node depends on the positions; here every pass   *)
(* may or may not move one.                                                *)
(***************************************************************************)
\* nodes.length of the graphs: around 200 (spatial grid) and 500 (budget)
OverlapNodeCounts == {3, 200, 201, 500, 501, 1000, 5000, 100000}

\* the maxIterations argument: 50 from computeLayout, 150 by default
OverlapMaxIters == {10, 50, 150}

\* nodeCount > 200
useSpatialGrid(n) == n > 200

\* the grid rebuilt after the first of every five passes
RebuildDue_First(it) == it % 5 = 0

\* iter % 5 === 4
RebuildDue(it) == it % 5 = 4

OverlapInit ==
  /\ overlapNodes \in OverlapNodeCounts
  /\ overlapMaxIter \in OverlapMaxIters
  /\ passes = <<>>
  /\ rebuiltAfter = {}
  /\ overlapPc = "loop"

OverlapParked ==
  /\ overlapNodes = 0
  /\ overlapMaxIter = 0
  /\ passes = <<>>
  /\ rebuiltAfter = {}
  /\ overlapPc = "done"

\* the framing of an action of the pass loop
OverlapFrame ==
  UNCHANGED <<hostVars, loopVars, pipeVars, graphVars, cacheVars, buildVars, msgVars,
              gridVars, compVars, rateVars>>

\* one round of the for loop: the pass, the rebuild of the grid and the
\* break after a pass that moved nothing
OverlapPass ==
  /\ overlapPc = "loop"
  /\ Len(passes) < overlapIterations(overlapNodes, overlapMaxIter)
  /\ \E moved \in BOOLEAN :
       /\ passes' = Append(passes, moved)
       /\ rebuiltAfter' =
            IF useSpatialGrid(overlapNodes) /\ moved /\ RebuildDue(Len(passes))
            THEN rebuiltAfter \cup {Len(passes) + 1}
            ELSE rebuiltAfter
       /\ overlapPc' = IF moved THEN "loop" ELSE "done"
  /\ UNCHANGED <<overlapNodes, overlapMaxIter>>
  /\ OverlapFrame

\* iter < iterations fails: the loop ends with the budget used up
OverlapExit ==
  /\ overlapPc = "loop"
  /\ Len(passes) >= overlapIterations(overlapNodes, overlapMaxIter)
  /\ overlapPc' = "done"
  /\ UNCHANGED <<overlapNodes, overlapMaxIter, passes, rebuiltAfter>>
  /\ OverlapFrame

OverlapNext == OverlapPass \/ OverlapExit

(***************************************************************************)
(* SpatialGrid (layout.worker.ts lines 149-195, the same code as           *)
(* layoutCore.ts lines 177-230) and one pass of resolveOverlaps over it,   *)
(* next to the pass over all pairs. The grid is used for more than 200     *)
(* nodes; the three nodes below are the ones of such a graph that are      *)
(* near each other, every other node being so far from them and from each  *)
(* other that no pass touches it. All nodes have paperCount 0 and          *)
(* minDistance is 15.                                                      *)
(***************************************************************************)
\* Object.keys(positions)
GridIds == <<1, 2, 3>>

\* coordinates of the three nodes in pixels
GridXs == {5, 28, 29, 45, 60, 88}
GridYs == {10, 40}

\* searchRadius = maxSize + minDistance, also the cell size of the grid
searchRadiusOf(maxSize, minDistance) == maxSize + minDistance

\* Math.ceil(a / b) for b > 0
CeilDiv(a, b) == -((-a) \div b)

\* getCellKey: <<Math.floor(x / cellSize), Math.floor(y / cellSize)>>
getCellKey(pos, cellSize) == <<pos.x \div cellSize, pos.y \div cellSize>>

\* rebuild(): every occupied cell with its node ids in the order of
\* Object.keys(positions)
rebuild(pos, ids, cellSize) ==
  [key \in {getCellKey(pos[ids[i]], cellSize) : i \in 1..Len(ids)} |->
     LET InCell(id) == getCellKey(pos[id], cellSize) = key
     IN  SelectSeq(ids, InCell)]

RECURSIVE NearbyFrom(_, _, _, _, _, _)
\* the two loops over dx and dy from offset number k on, offsets counted
\* row by row from (-cellRadius, -cellRadius)
NearbyFrom(cells, cx, cy, cellRadius, k, nodeId) ==
  LET side == 2 * cellRadius + 1
      key == <<cx - cellRadius + (k - 1) \div side, cy - cellRadius + ((k - 1) % side)>>
      NotSelf(id) == id # nodeId
  IN  IF k > side * side THEN <<>>
      ELSE (IF key \in DOMAIN cells THEN SelectSeq(cells[key], NotSelf) ELSE <<>>)
             \o NearbyFrom(cells, cx, cy, cellRadius, k + 1, nodeId)

\* getNearbyNodes(nodeId, searchRadius): the cell of nodeId is taken from
\* its current position pos, the members of the cells from the last rebuild
getNearbyNodes(cells, pos, nodeId, searchRadius, cellSize) ==
  NearbyFrom(cells, pos[nodeId].x \div cellSize, pos[nodeId].y \div cellSize,
             CeilDiv(searchRadius, cellSize), 1, nodeId)

\* the check of the pair (idA, idB), which also records the corrected pair
CheckedPair(st, idA, idB, sizes, center, minDistance) ==
  LET r == CorrectPair([pos |-> st.pos, moved |-> FALSE], idA, idB, sizes, center,
                       minDistance)
  IN  [pos |-> r.pos, moved |-> st.moved \/ r.moved,
       corrected |-> IF r.moved THEN st.corrected \cup {{idA, idB}} ELSE st.corrected]

RECURSIVE TurnFrom(_, _, _, _, _, _, _)
\* for (const idB of candidates), from candidate number k on
TurnFrom(st, idA, candidates, k, sizes, center, minDistance) ==
  IF k > Len(candidates) THEN st
  ELSE TurnFrom(CheckedPair(st, idA, candidates[k], sizes, center, minDistance),
                idA, candidates, k + 1, sizes, center, minDistance)

RECURSIVE PassOver(_, _, _, _, _, _, _, _)
\* for (const idA of nodeIds), from id number i on: the candidates of idA
\* are computed before its inner loop, from the grid or as all other ids
PassOver(st, ids, i, withGrid, cells, sizes, center, minDistance) ==
  IF i > Len(ids) THEN st
  ELSE IF ids[i] = center
       THEN PassOver(st, ids, i + 1, withGrid, cells, sizes, center, minDistance)
       ELSE LET idA == ids[i]
                radius == searchRadiusOf(SetMax({sizes[id] : id \in DOMAIN sizes}),
                                         minDistance)
                NotA(id) == id # idA
                candidates == IF withGrid
                              THEN getNearbyNodes(cells, st.pos, idA, radius, radius)
                              ELSE SelectSeq(ids, NotA)
            IN  PassOver(TurnFrom(st, idA, candidates, 1, sizes, center, minDistance),
                         ids, i + 1, withGrid, cells, sizes, center, minDistance)

\* the sizes of the three nodes: 10 + Math.sqrt(0 || 1) * 5
GridSizes == [id \in Range(GridIds) |-> SizeOf(0)]

\* minDistance of computeLayout for 201 to 500 nodes
GridMinDistance == minDistanceFor(201)

GridRadius == searchRadiusOf(SizeOf(0), GridMinDistance)

\* no pass run yet
NoPass == [done |-> FALSE, pos |-> <<>>, moved |-> FALSE, corrected |-> {}]

\* the outcome of the pass that ended in st
PassOutcome(st) ==
  [done |-> TRUE, pos |-> st.pos, moved |-> st.moved, corrected |-> st.corrected]

GridInit ==
  /\ startPositions \in [Range(GridIds) -> [x : {Px(c) : c \in GridXs},
                                            y : {Px(c) : c \in GridYs}]]
  /\ gridCenter \in {0, 3}
  /\ spatialGrid = <<>>
  /\ built = FALSE
  /\ gridPass = NoPass
  /\ brutePass = NoPass

GridParked ==
  /\ startPositions = <<>>
  /\ gridCenter = 0
  /\ spatialGrid = <<>>
  /\ built = TRUE
  /\ gridPass = [NoPass EXCEPT !.done = TRUE]
  /\ brutePass = [NoPass EXCEPT !.done = TRUE]

\* the framing of an action of this part
GridFrame ==
  UNCHANGED <<hostVars, loopVars, pipeVars, graphVars, cacheVars, buildVars, msgVars,
              overlapVars, compVars, rateVars>>

\* grid.rebuild() on the positions at the start of the pass
Rebuild ==
  /\ ~built
  /\ spatialGrid' = rebuild(startPositions, GridIds, GridRadius)
  /\ built' = TRUE
  /\ UNCHANGED <<startPositions, gridCenter, gridPass, brutePass>>
  /\ GridFrame

\* one pass with useSpatialGrid, right after the rebuild
GridPass ==
  /\ built
  /\ ~gridPass.done
  /\ gridPass' = PassOutcome(PassOver([pos |-> startPositions, moved |-> FALSE,
                                       corrected |-> {}],
                                      GridIds, 1, TRUE, spatialGrid, GridSizes,
                                      gridCenter, GridMinDistance))
  /\ UNCHANGED <<startPositions, gridCenter, spatialGrid, built, brutePass>>
  /\ GridFrame

\* one pass without the grid
BrutePass ==
  /\ ~brutePass.done
  /\ brutePass' = PassOutcome(PassOver([pos |-> startPositions, moved |-> FALSE,
                                        corrected |-> {}],
                                       GridIds, 1, FALSE, <<>>, GridSizes,
                                       gridCenter, GridMinDistance))
  /\ UNCHANGED <<startPositions, gridCenter, spatialGrid, built, gridPass>>
  /\ GridFrame

GridNext == Rebuild \/ GridPass \/ BrutePass

(***************************************************************************)
(* The graph component: initializeCytoscape, the filter effect and the     *)
(* resize handler over the module's layout cache                           *)
(* (components/CoauthorGraph.tsx).  The keys of one center are told apart  *)
(* by the enabled types alone, and there are fewer of them than            *)
(* MAX_CACHE_SIZE, so nothing is evicted here.                             *)
(***************************************************************************)
\* two of ALL_PUBLICATION_TYPES, in the order Array.prototype.sort gives them
TypeOrder == <<"conference", "journal">>
PublicationTypes == {TypeOrder[i] : i \in DOMAIN TypeOrder}
TypeSets == SUBSET PublicationTypes

\* the clientWidth and clientHeight the container can have
ContainerSizes == Viewports

\* getFilterKey for the one center of the page: the enabled types, sorted
getFilterKey(types) == SelectSeq(TypeOrder, LAMBDA t : t \in types)

FilterKeys == {getFilterKey(types) : types \in TypeSets}

\* what the positions of an entry were computed for; w = 0: no entry
NoLayout == [types |-> {}, w |-> 0, h |-> 0]
ComputedFor(types, w, h) == [types |-> types, w |-> w, h |-> h]

\* layoutCache.get(key) of getCachedLayout found an entry
IsCached(key) == positionsFor[key] # NoLayout

NoLocals == [key |-> <<>>, types |-> {}, w |-> 0, h |-> 0]
NoHit == [hit |-> FALSE, entry |-> NoLayout, types |-> {}, w |-> 0, h |-> 0]

\* getCachedLayout(key) returned positions while the enabled types were types
\* and the container had the size it has now
HitOf(key, types) ==
  [hit |-> TRUE, entry |-> positionsFor[key], types |-> types,
   w |-> container[1], h |-> container[2]]

CompInit ==
  /\ isMounted = TRUE
  /\ isInitializing = FALSE
  /\ cyReady = FALSE
  /\ initPc = "idle"
  /\ initLocals = NoLocals
  /\ enabledTypes = PublicationTypes
  /\ container \in ContainerSizes
  /\ isLargeGraph \in BOOLEAN
  /\ positionsFor = [key \in FilterKeys |-> NoLayout]
  /\ lastHit = NoHit

CompParked ==
  /\ isMounted = FALSE
  /\ isInitializing = FALSE
  /\ cyReady = FALSE
  /\ initPc = "idle"
  /\ initLocals = NoLocals
  /\ enabledTypes = PublicationTypes
  /\ container = <<400, 400>>
  /\ isLargeGraph = FALSE
  /\ positionsFor = <<>>
  /\ lastHit = NoHit

\* the framing of an action of the component
CompFrame ==
  UNCHANGED <<hostVars, loopVars, pipeVars, graphVars, cacheVars, buildVars, msgVars,
              overlapVars, gridVars, rateVars>>

\* the guard of initializeCytoscape turns the call away
TurnedAway == ~isMounted \/ isInitializing

\* initializeCytoscape() up to its end or to await computeLayoutAsync: a hit
\* of the cache and the synchronous layout of a small graph run to the end
\* and release the guard, a miss on a large graph suspends with the guard set
InitializeCytoscape ==
  /\ ~TurnedAway
  /\ LET key == getFilterKey(enabledTypes)
     IN  IF IsCached(key)
         THEN /\ lastHit' = HitOf(key, enabledTypes)
              /\ cyReady' = TRUE
              /\ UNCHANGED <<isInitializing, initPc, initLocals, positionsFor>>
         ELSE IF isLargeGraph
         THEN /\ isInitializing' = TRUE
              /\ cyReady' = FALSE
              /\ initPc' = "awaiting"
              /\ initLocals' = [key |-> key, types |-> enabledTypes,
                                w |-> container[1], h |-> container[2]]
              /\ UNCHANGED <<positionsFor, lastHit>>
         ELSE /\ positionsFor' =
                   [positionsFor EXCEPT
                      ![key] = ComputedFor(enabledTypes, container[1], container[2])]
              /\ cyReady' = TRUE
              /\ UNCHANGED <<isInitializing, initPc, initLocals, lastHit>>
  /\ UNCHANGED <<isMounted, enabledTypes, container, isLargeGraph>>
  /\ CompFrame

\* await computeLayoutAsync(...) gives positions: they are cached under the
\* key taken before the await, and the guard is released on both ways out
AwaitResolves ==
  /\ initPc = "awaiting"
  /\ positionsFor' =
       [positionsFor EXCEPT
          ![initLocals.key] = ComputedFor(initLocals.types, initLocals.w, initLocals.h)]
  /\ cyReady' = isMounted
  /\ isInitializing' = FALSE
  /\ initPc' = "idle"
  /\ initLocals' = NoLocals
  /\ UNCHANGED <<isMounted, enabledTypes, container, isLargeGraph, lastHit>>
  /\ CompFrame

\* await computeLayoutAsync(...) throws (the worker's error, the timeout): the
\* finally block resets isComputingLayout and the exception leaves the function
AwaitRejects ==
  /\ initPc = "awaiting"
  /\ initPc' = "idle"
  /\ initLocals' = NoLocals
  /\ UNCHANGED <<isMounted, isInitializing, cyReady, enabledTypes, container,
                 isLargeGraph, positionsFor, lastHit>>
  /\ CompFrame

\* the parent toggles one type and the filter effect runs
FilterEffect ==
  /\ \E t \in PublicationTypes :
       LET types == IF t \in enabledTypes THEN enabledTypes \ {t}
                                          ELSE enabledTypes \cup {t}
           key == getFilterKey(types)
       IN  /\ enabledTypes' = types
           /\ IF ~cyReady \/ ~isMounted
              THEN UNCHANGED <<positionsFor, lastHit>>
              ELSE IF IsCached(key)
              THEN /\ lastHit' = HitOf(key, types)
                   /\ UNCHANGED positionsFor
              ELSE /\ positionsFor' =
                        [positionsFor EXCEPT
                           ![key] = ComputedFor(types, container[1], container[2])]
                   /\ UNCHANGED lastHit
  /\ UNCHANGED <<isMounted, isInitializing, cyReady, initPc, initLocals, container,
                 isLargeGraph>>
  /\ CompFrame

\* the window is resized: handleResize refits the view and that is all
HandleResize ==
  /\ isMounted
  /\ container' \in ContainerSizes \ {container}
  /\ UNCHANGED <<isMounted, isInitializing, cyReady, initPc, initLocals, enabledTypes,
                 isLargeGraph, positionsFor, lastHit>>
  /\ CompFrame

\* the component unmounts: the cleanups destroy the view
Unmount ==
  /\ isMounted
  /\ isMounted' = FALSE
  /\ cyReady' = FALSE
  /\ UNCHANGED <<isInitializing, initPc, initLocals, enabledTypes, container,
                 isLargeGraph, positionsFor, lastHit>>
  /\ CompFrame

\* the component mounts again with fresh refs over the same module cache
\* (a suspended call of the instance before is let finish first)
Mount ==
  /\ ~isMounted
  /\ initPc = "idle"
  /\ isMounted' = TRUE
  /\ isInitializing' = FALSE
  /\ UNCHANGED <<cyReady, initPc, initLocals, enabledTypes, container, isLargeGraph,
                 positionsFor, lastHit>>
  /\ CompFrame

CompNext ==
  \/ InitializeCytoscape
  \/ AwaitResolves
  \/ AwaitRejects
  \/ FilterEffect
  \/ HandleResize
  \/ Unmount
  \/ Mount

(***************************************************************************)
(* The rate limiter: checkRateLimit and the cleanup interval over          *)
(* rateLimitStore (lib/rateLimit.ts).  Time is counted in ticks; the two   *)
(* limits and the window are scaled down, the window and the cleanup       *)
(* interval stay equal as they are in the source.                          *)
(***************************************************************************)
\* the last tick of the clock
MaxClock == 5

\* RATE_LIMITS.search.maxRequests and RATE_LIMITS.graph.maxRequests, scaled
MaxSearchRequests == 3
MaxGraphRequests == 2

\* windowMs of both limits, in ticks
WindowTicks == 2

CLEANUP_INTERVAL == WindowTicks

RATE_LIMITS ==
  [search |-> [maxRequests |-> MaxSearchRequests, windowMs |-> WindowTicks],
   graph |-> [maxRequests |-> MaxGraphRequests, windowMs |-> WindowTicks]]

\* the identifiers the routes build for one client: `search:${clientIP}` and
\* `graph:${clientIP}`, each with the limit of its route
Identifiers == {"search:ip", "graph:ip"}
ConfigOf(identifier) ==
  IF identifier = "search:ip" THEN RATE_LIMITS.search ELSE RATE_LIMITS.graph

\* rateLimitStore.get(identifier) is undefined
NoEntry == [count |-> 0, resetTime |-> -1]

\* entry.resetTime < now in the cleanup
CleanupExpired_AtReset(entry, now) == entry.resetTime <= now
CleanupExpired(entry, now) == entry.resetTime < now

\* !entry || entry.resetTime < now in checkRateLimit
WindowExpired(entry, now) == entry = NoEntry \/ entry.resetTime < now

\* checkRateLimit(identifier, config) at time now over a store: the store
\* after the call and the result returned
checkRateLimit(store, identifier, config, now) ==
  LET entry == store[identifier]
  IN  IF WindowExpired(entry, now)
      THEN [store |-> [store EXCEPT ![identifier] =
                         [count |-> 1, resetTime |-> now + config.windowMs]],
            result |-> [allowed |-> TRUE, remaining |-> config.maxRequests - 1,
                        resetTime |-> now + config.windowMs]]
      ELSE IF entry.count < config.maxRequests
      THEN [store |-> [store EXCEPT ![identifier].count = entry.count + 1],
            result |-> [allowed |-> TRUE,
                        remaining |-> config.maxRequests - (entry.count + 1),
                        resetTime |-> entry.resetTime]]
      ELSE [store |-> store,
            result |-> [allowed |-> FALSE, remaining |-> 0,
                        resetTime |-> entry.resetTime]]

NoResult == [allowed |-> FALSE, remaining |-> 0, resetTime |-> -1]
NoCall ==
  [called |-> FALSE, identifier |-> "search:ip", now |-> 0, before |-> NoEntry,
   after |-> NoEntry, result |-> NoResult, plain |-> NoResult, endBefore |-> -1,
   cleaned |-> FALSE]

RateInit ==
  /\ rateLimitStore = [identifier \in Identifiers |-> NoEntry]
  /\ clock = 0
  /\ lastCleanup = 0
  /\ uncleaned = [identifier \in Identifiers |-> NoEntry]
  /\ granted = [identifier \in Identifiers |-> 0]
  /\ windowEnd = [identifier \in Identifiers |-> -1]
  /\ lastCall = NoCall

RateParked ==
  /\ rateLimitStore = <<>>
  /\ clock = 0
  /\ lastCleanup = 0
  /\ uncleaned = <<>>
  /\ granted = <<>>
  /\ windowEnd = <<>>
  /\ lastCall = NoCall

\* the framing of an action of the rate limiter
RateFrame ==
  UNCHANGED <<hostVars, loopVars, pipeVars, graphVars, cacheVars, buildVars, msgVars,
              overlapVars, gridVars, compVars>>

\* a route calls checkRateLimit for its identifier
CheckRateLimit ==
  /\ \E identifier \in Identifiers :
       LET config == ConfigOf(identifier)
           call == checkRateLimit(rateLimitStore, identifier, config, clock)
           plain == checkRateLimit(uncleaned, identifier, config, clock)
           opens == call.result.allowed /\ call.store[identifier].count = 1
       IN  /\ rateLimitStore' = call.store
           /\ uncleaned' = plain.store
           /\ granted' =
                [granted EXCEPT
                   ![identifier] = IF ~call.result.allowed THEN @
                                   ELSE IF opens THEN 1 ELSE @ + 1]
           /\ windowEnd' =
                [windowEnd EXCEPT
                   ![identifier] = IF opens THEN call.result.resetTime ELSE @]
           /\ lastCall' =
                [called |-> TRUE, identifier |-> identifier, now |-> clock,
                 before |-> rateLimitStore[identifier],
                 after |-> call.store[identifier], result |-> call.result,
                 plain |-> plain.result, endBefore |-> windowEnd[identifier],
                 cleaned |-> rateLimitStore[identifier] # uncleaned[identifier]]
  /\ UNCHANGED <<clock, lastCleanup>>
  /\ RateFrame

\* the setInterval callback: every entry whose resetTime has passed is deleted
Cleanup ==
  /\ clock >= lastCleanup + CLEANUP_INTERVAL
  /\ rateLimitStore' =
       [identifier \in Identifiers |->
          IF /\ rateLimitStore[identifier] # NoEntry
             /\ CleanupExpired(rateLimitStore[identifier], clock)
          THEN NoEntry ELSE rateLimitStore[identifier]]
  /\ lastCleanup' = clock
  /\ UNCHANGED <<clock, uncleaned, granted, windowEnd, lastCall>>
  /\ RateFrame

\* time passes
ClockTick ==
  /\ clock < MaxClock
  /\ clock' = clock + 1
  /\ UNCHANGED <<rateLimitStore, lastCleanup, uncleaned, granted, windowEnd, lastCall>>
  /\ RateFrame

RateNext == CheckRateLimit \/ Cleanup \/ ClockTick

(***************************************************************************)
(* Specifications.                                                         *)
(***************************************************************************)
\* the parts added to the five above, at rest
MoreParked ==
  BuildParked /\ MsgParked /\ OverlapParked /\ GridParked /\ CompParked /\ RateParked

Init == HostInit /\ LoopParked /\ PipeParked /\ GraphParked /\ CacheInit /\ MoreParked
Next == HostNext
Spec == Init /\ [][Next]_vars

HostParked == hasWindow = TRUE /\ HostFresh

InitLoop == LoopInit /\ HostParked /\ PipeParked /\ GraphParked /\ CacheInit /\ MoreParked
NextLoop == LoopNext
SpecLoop == InitLoop /\ [][NextLoop]_vars

InitPipe == PipeInit /\ HostParked /\ LoopParked /\ GraphParked /\ CacheInit /\ MoreParked
NextPipe == PipeNext
SpecPipe == InitPipe /\ [][NextPipe]_vars

InitGraph == GraphInit /\ HostParked /\ LoopParked /\ CacheInit /\ MoreParked
NextGraph == GraphNext
SpecGraph == InitGraph /\ [][NextGraph]_vars

InitCache == CacheInit /\ HostParked /\ LoopParked /\ PipeParked /\ GraphParked /\ MoreParked
NextCache == CacheNext
SpecCache == InitCache /\ [][NextCache]_vars

AllParked == HostParked /\ LoopParked /\ PipeParked /\ GraphParked /\ CacheInit

InitBuild == BuildInit /\ AllParked /\ MsgParked /\ OverlapParked /\ GridParked
  /\ CompParked /\ RateParked
NextBuild == BuildNext
SpecBuild == InitBuild /\ [][NextBuild]_vars

InitMsg == MsgInit /\ AllParked /\ BuildParked /\ OverlapParked /\ GridParked
  /\ CompParked /\ RateParked
NextMsg == MsgNext
SpecMsg == InitMsg /\ [][NextMsg]_vars

InitOverlap == OverlapInit /\ AllParked /\ BuildParked /\ MsgParked /\ GridParked
  /\ CompParked /\ RateParked
NextOverlap == OverlapNext
SpecOverlap == InitOverlap /\ [][NextOverlap]_vars

InitGrid == GridInit /\ AllParked /\ BuildParked /\ MsgParked /\ OverlapParked
  /\ CompParked /\ RateParked
NextGrid == GridNext
SpecGrid == InitGrid /\ [][NextGrid]_vars

InitComp ==
  CompInit /\ AllParked /\ BuildParked /\ MsgParked /\ OverlapParked /\ GridParked /\ RateParked
NextComp == CompNext
SpecComp == InitComp /\ [][NextComp]_vars

InitRate ==
  RateInit /\ AllParked /\ BuildParked /\ MsgParked /\ OverlapParked /\ GridParked
  /\ CompParked
NextRate == RateNext
SpecRate == InitRate /\ [][NextRate]_vars

(***************************************************************************)
(* Claims about the execution host, checked under Spec.                    *)
(***************************************************************************)
\* the worker-routed requests that have not settled and whose compute
\* message is at the worker
Outstanding == {r \in Range(wq) : ~Settled(r)}

\* C1: at most one compute message of an unsettled request is outstanding
\* at the worker at any time: a request is posted only after every request
\* posted before it has settled.
C1_OneOutstanding == Cardinality(Outstanding) <= 1

\* C2: a request settled by a worker message ('result' or 'error') is
\* settled by the response to its own compute message, never by the
\* response the worker produced for another request.
C2_OwnResponse ==
  \A r \in Reqs : outcome[r].kind \in {"result", "error"} => outcome[r].of = r

\* C3: a request rejected with the timeout error is rejected by its own
\* timer, LAYOUT_TIMEOUT or more after it was posted.
C3_OwnTimer ==
  \A r \in Reqs : outcome[r].kind = "timeout" =>
    /\ outcome[r].of = r
    /\ outcome[r].age >= LAYOUT_TIMEOUT

\* nothing is left to happen unless computeLayoutAsync or
\* terminateLayoutWorker is called again
Quiescent ==
  /\ MainIdle
  /\ inbox = <<>>
  /\ timers = <<>>
  /\ WorkerComputing = Null
  /\ worker # "faulty"
  /\ \A r \in Reqs : pc[r] \notin {"import", "sync", "ready"}

\* C4: no request stays pending forever: once every worker message is
\* handled, every timer has expired and every computation has ended, every
\* promise computeLayoutAsync returned has settled.
C4_AllSettle ==
  Quiescent => \A r \in Reqs : pc[r] # "new" => Settled(r)

\* request r is rejected in this step by a worker failure or by the timeout
FailsNow(r) ==
  /\ ~Settled(r)
  /\ outcome'[r].kind \in {"error", "onerror", "timeout"}

\* C5: a rejection caused by an 'error' message or by the worker's error
\* event carries the worker's error and not the timeout error, a rejection
\* by failure or timeout leaves pendingResolve, pendingReject and
\* pendingPromise null, and a request only ever waits for a posted request
\* that has not settled, so a failed request holds back no later one.
C5_FailureLeavesHostFree ==
  [][ /\ \A r \in Reqs : FailsNow(r) =>
           /\ pendingResolve' = Null
           /\ pendingReject' = Null
           /\ pendingPromise' = Null
           /\ (inbox' # inbox =>
                 Head(inbox).type = "error" /\ outcome'[r].kind = "error")
           /\ (worker' # worker => outcome'[r].kind = "onerror")
           /\ (outcome'[r].kind = "timeout" =>
                 inbox' = inbox /\ worker' = worker /\ Len(timers') < Len(timers))
      /\ \A r \in Reqs : (pc[r] = "new" /\ pc'[r] = "waiting") =>
           /\ pc[waitOn'[r]] = "posted"
           /\ ~Settled(waitOn'[r])
    ]_vars

\* C5 happens: a request was rejected by a worker failure, another by the
\* timeout, and the request after them was resolved by its own result
C5_Witness ==
  \E a, b, c \in Reqs :
    /\ a < c /\ b < c
    /\ outcome[a].kind = "onerror" \/ (outcome[a].kind = "error" /\ outcome[a].of = a)
    /\ outcome[b].kind = "timeout" /\ outcome[b].of = b
    /\ outcome[c].kind = "result" /\ outcome[c].of = c

\* C6: a call is routed to the worker if and only if it has at least
\* WORKER_THRESHOLD nodes and getWorker returned a worker; every other call
\* takes the synchronous route, posts nothing and settles with what
\* computeFastLayout returns or throws, never with a worker failure.
C6_Routing ==
  [][ \A r \in Reqs :
        /\ (pc[r] = "new" /\ pc'[r] # "new") =>
             /\ pc'[r] \in {"import", "waiting", "posted"}
             /\ pc'[r] \in {"waiting", "posted"} <=>
                  (nodesLen'[r] >= WORKER_THRESHOLD /\ hasWindow /\ worker' # "null")
        /\ pc[r] \in {"import", "sync"} =>
             /\ pc'[r] \in {"import", "sync", "done"}
             /\ outcome'[r].kind \in {"none", "sync", "syncthrow"}
        /\ (r \in Range(wq') /\ r \notin Range(wq)) =>
             /\ pc'[r] = "posted"
             /\ nodesLen'[r] >= WORKER_THRESHOLD
             /\ worker' # "null"
    ]_vars

\* C6 happens: in a browser, a request at the threshold whose worker could
\* not be created was computed synchronously, a request at the threshold
\* was posted to the worker and a request below it was computed inline
C6_Witness ==
  \E a, b, c \in Reqs :
    /\ hasWindow
    /\ nodesLen[a] = WORKER_THRESHOLD /\ outcome[a].kind = "sync"
    /\ nodesLen[b] = WORKER_THRESHOLD /\ b \in Range(wq)
    /\ nodesLen[c] = WORKER_THRESHOLD - 1 /\ outcome[c].kind = "sync"

\* C7: a computation on the caller's thread and a computation on the worker
\* thread are never in progress at the same time.
C7_NeverBothThreads == ~(syncRunning # Null /\ WorkerComputing # Null)

(***************************************************************************)
(* Claims about the convergence loop, checked under SpecLoop.              *)
(***************************************************************************)
\* C8: the force simulation iterations run by the convergence loop never
\* exceed the iteration ceiling chosen for the node count, also when the
\* displacement never falls below the threshold.
C8_WithinCeiling == totalIterations <= maxIterations(route, nodeCount)

(***************************************************************************)
(* Claims about the layout pipeline, checked under SpecPipe.               *)
(***************************************************************************)
ViewportCenter == [x |-> containerWidth \div 2, y |-> containerHeight \div 2]

\* the position map as scalePositions returned it
ScaledMap == scalePositions(graph, containerWidth, containerHeight, centerNodeId)

\* positions p and q are closer than the minimum distance of nodes a and b
TooClose(p, q, a, b) ==
  LET minDist == (nodeSizes(nodes)[a] + nodeSizes(nodes)[b]) \div 2
                   + minDistanceFor(Len(nodes))
      dx == q.x - p.x
      dy == q.y - p.y
  IN  dx * dx + dy * dy < minDist * minDist /\ dx * dx + dy * dy > 0

\* C9: when the node list contains centerNodeId, the position map the
\* pipeline returns maps it to exactly (containerWidth / 2,
\* containerHeight / 2), overlap resolution included.
C9_CenterAtViewportCenter ==
  (pipePc = "done" /\ centerNodeId \in NodeIds(nodes)) =>
    positions[centerNodeId] = ViewportCenter

\* C9 happens: the pipeline returned after overlap resolution pushed away a
\* node that scalePositions had left too close to the center
C9_Witness ==
  /\ pipePc = "done"
  /\ centerNodeId \in NodeIds(nodes)
  /\ \E id \in NodeIds(nodes) \ {centerNodeId} :
       /\ TooClose(ScaledMap[id], ScaledMap[centerNodeId], id, centerNodeId)
       /\ positions[id] # ScaledMap[id]

\* C10: for pairwise distinct node ids the key set of the position map is
\* the set of input node ids, from scalePositions to the end of overlap
\* resolution.
C10_KeySetIsNodeIds ==
  (pipePc \in {"resolving", "done"} /\ Distinct(nodes)) =>
    DOMAIN positions = NodeIds(nodes)

\* C10 happens: a graph of three nodes was returned after overlap
\* resolution moved two nodes, neither of them the center
C10_Witness ==
  /\ pipePc = "done"
  /\ Len(nodes) >= 3
  /\ Distinct(nodes)
  /\ \E a, b \in NodeIds(nodes) \ {centerNodeId} :
       /\ a # b
       /\ TooClose(ScaledMap[a], ScaledMap[b], a, b)
       /\ positions[a] # ScaledMap[a]
       /\ positions[b] # ScaledMap[b]

\* positions p and q of nodes a and b are closer than their minimum distance
Closer(p, q, a, b) ==
  LET minDist == (nodeSizes(nodes)[a] + nodeSizes(nodes)[b]) \div 2
                   + minDistanceFor(Len(nodes))
      dx == q.x - p.x
      dy == q.y - p.y
  IN  dx * dx + dy * dy < minDist * minDist

\* the pairs of non-center nodes closer than their minimum distance
CloserPairs ==
  {pr \in (DOMAIN positions \ {centerNodeId}) \X (DOMAIN positions \ {centerNodeId}) :
     pr[1] # pr[2] /\ Closer(positions[pr[1]], positions[pr[2]], pr[1], pr[2])}

\* C11: when resolveOverlaps returns, every pair of non-center nodes is at
\* least (sizeA + sizeB) / 2 + minDistance apart, or the whole pass budget
\* was used: it never returns early while such a pair is still closer.
C11_SeparatedOrExhausted ==
  pipePc = "done" =>
    \/ CloserPairs = {}
    \/ iter >= overlapIterations(Len(nodes), 50)

\* the request is one of the degenerate graphs: no node, one node, or every
\* node left at the same x or at the same y by the simulation
Degenerate ==
  \/ Len(graph) <= 1
  \/ \A i, j \in 1..Len(graph) : graph[i].x = graph[j].x
  \/ \A i, j \in 1..Len(graph) : graph[i].y = graph[j].y

\* C12: for an empty node list, a single node and nodes that all share the
\* same x or the same y, every coordinate of the position map is finite
\* from scalePositions to the end of overlap resolution, and a single node
\* is placed at the viewport center.
C12_DegenerateFinite ==
  (pipePc \in {"resolving", "done"} /\ Distinct(nodes) /\ Degenerate) =>
    /\ \A id \in DOMAIN positions :
         Finite(positions[id].x) /\ Finite(positions[id].y)
    /\ Len(nodes) = 1 => positions[nodes[1].id] = ViewportCenter

\* C12 happens: the pipeline returned the positions of three nodes the
\* simulation had left on one vertical line, none of them the center
C12_Witness ==
  /\ pipePc = "done"
  /\ Len(graph) = 3
  /\ centerNodeId \notin NodeIds(nodes)
  /\ \A i, j \in 1..Len(graph) : graph[i].x = graph[j].x
  /\ \E i, j \in 1..Len(graph) : graph[i].y # graph[j].y
  /\ \A id \in DOMAIN positions : positions[id].x = ViewportCenter.x

(***************************************************************************)
(* Claims about the simulation parameters and the convergence test of the  *)
(* worker's computeLayout, checked under SpecLoop.                         *)
(***************************************************************************)
\* the tier of a node count: 1 for N <= 200, 2 for 201..500, 3 for
\* 501..1000, 4 for N > 1000
Tier(n) == IF n <= 200 THEN 1 ELSE IF n <= 500 THEN 2 ELSE IF n <= 1000 THEN 3 ELSE 4

\* C13: in computeLayout the simulation parameters depend on the node count
\* alone, with tiers N <= 200, 201..500, 501..1000, N > 1000: theta is
\* 0.5 / 0.6 / 0.8 / 1.0 and slowDown 2 / 3 / 4 / 5; every batch runs 100
\* iterations for N <= 500 and 150 above; a 1200-node graph runs with theta
\* 1.0, batches of 150 and no batch once 1500 iterations were run.
C13_AdaptiveTiers ==
  [][ route = "worker" =>
        /\ fa2Settings.barnesHutTheta10 = <<5, 6, 8, 10>>[Tier(nodeCount)]
        /\ fa2Settings.slowDown = <<2, 3, 4, 5>>[Tier(nodeCount)]
        /\ fa2Settings' = fa2Settings
        /\ totalIterations' # totalIterations =>
             totalIterations' - totalIterations = (IF nodeCount <= 500 THEN 100 ELSE 150)
        /\ nodeCount = 1200 =>
             /\ fa2Settings.barnesHutTheta10 = 10
             /\ totalIterations' # totalIterations =>
                  /\ totalIterations' = totalIterations + 150
                  /\ totalIterations < 1500
                  /\ totalIterations' <= 1500
    ]_vars

\* C13 happens: a 1200-node graph ran its ten batches of 150 iterations
\* with theta 1.0 and slowDown 5 and left the loop at the ceiling
C13_Witness ==
  /\ route = "worker"
  /\ nodeCount = 1200
  /\ fa2Settings.barnesHutTheta10 = 10 /\ fa2Settings.slowDown = 5
  /\ totalIterations = 1500
  /\ loopPc = "done"
  /\ ~Converged(totalMovement2, convergenceThreshold2(route, nodeCount))

\* twice the threshold of the claim: 0.5 * N for N <= 500, 1.0 * N above
ClaimedThreshold2(n) == IF n <= 500 THEN n ELSE 2 * n

\* C14: the convergence loop of computeLayout runs at least one batch; the
\* loop ends right after a batch exactly when the displacement of that batch
\* is strictly below the threshold (0.5 * N for N <= 500, 1.0 * N above),
\* and no batch is run after such a batch.
C14_StopsAtFirstConvergedBatch ==
  [][ route = "worker" =>
        /\ loopPc' = "done" => totalIterations' > 0
        /\ totalIterations' # totalIterations =>
             (loopPc' = "done" <=> totalMovement2' < ClaimedThreshold2(nodeCount))
        /\ (totalIterations > 0 /\ totalMovement2 < ClaimedThreshold2(nodeCount)) =>
             totalIterations' = totalIterations
        /\ loopPc = "done" => totalIterations' = totalIterations
    ]_vars

\* C14 happens: with 501 nodes the loop ended after its third batch, the
\* first one whose displacement was below 1.0 * N (and not below 0.5 * N)
C14_Witness ==
  /\ route = "worker"
  /\ nodeCount = 501
  /\ loopPc = "done"
  /\ totalIterations = 3 * batchSize(route, nodeCount)
  /\ totalMovement2 = 2 * nodeCount - 1

(***************************************************************************)
(* Claims about createGraph, checked under SpecGraph.                      *)
(***************************************************************************)
\* 0.4 * min(width, height)
HalfSide == RoundDiv(Min(containerWidth, containerHeight) * 4, 10)

C16_UnknownEndsSkipped ==
  /\ Distinct(nodes) => gPc # "threw"
  /\ gPc = "done" =>
       /\ {simNodes[k].id : k \in 1..Len(simNodes)} = NodeIds(nodes)
       /\ \A k \in 1..Len(simEdges) :
            simEdges[k].source \in NodeIds(nodes) /\ simEdges[k].target \in NodeIds(nodes)
       /\ \A j \in 1..Len(edges) :
            (edges[j].source \in NodeIds(nodes) /\ edges[j].target \in NodeIds(nodes)) =>
              \E k \in 1..Len(simEdges) :
                simEdges[k].source = edges[j].source /\ simEdges[k].target = edges[j].target

\* C16 happens: createGraph returned for an edge list whose first edge names
\* a node that is not in the list and whose second edge joins two nodes
C16_Witness ==
  /\ gPc = "done"
  /\ Len(edges) = 2
  /\ edges[1].source \in NodeIds(nodes) /\ edges[1].target \notin NodeIds(nodes)
  /\ edges[2].source \in NodeIds(nodes) /\ edges[2].target \in NodeIds(nodes)
  /\ edges[2].source # edges[2].target
  /\ Len(simEdges) = 1

\* C17: the simulation graph never contains an edge from a node to itself.
C17_NoSelfLoop ==
  \A k \in 1..Len(simEdges) : simEdges[k].source # simEdges[k].target

(***************************************************************************)
(* Claims about one overlap correction, checked under SpecPipe. Positions  *)
(* are fixed-point, so lengths are compared up to the rounding of the      *)
(* square root and of the two push components.                             *)
(***************************************************************************)
\* the squared length sq is that of a length within tol units of len
LengthNear(sq, len, tol) ==
  /\ sq <= (len + tol) * (len + tol)
  /\ len - tol > 0 => (len - tol) * (len - tol) <= sq

\* the position map after the correction of the ordered pair (a, b)
AfterCorrection(a, b) ==
  CorrectPair([pos |-> positions, moved |-> FALSE], a, b, nodeSizes(nodes),
              centerNodeId, minDistanceFor(Len(nodes))).pos

\* C18: one correction of a pair that is too close leaves the center where
\* it is; two non-center nodes each move half the overlap, in opposite
\* directions along the line joining them; against the center the other
\* node moves the whole overlap; afterwards the pair is at its minimum
\* distance (sizeA + sizeB) / 2 + minDistance.
C18_OneCorrection ==
  pipePc \in {"resolving", "done"} =>
    \A a \in DOMAIN positions \ {centerNodeId}, b \in DOMAIN positions :
      (a # b /\ TooClose(positions[a], positions[b], a, b)) =>
        LET after == AfterCorrection(a, b)
            minDist == (nodeSizes(nodes)[a] + nodeSizes(nodes)[b]) \div 2
                         + minDistanceFor(Len(nodes))
            dx == positions[b].x - positions[a].x
            dy == positions[b].y - positions[a].y
            overlap == minDist - Sqrt(dx * dx + dy * dy)
            ax == after[a].x - positions[a].x
            ay == after[a].y - positions[a].y
            bx == after[b].x - positions[b].x
            by == after[b].y - positions[b].y
            sx == after[b].x - after[a].x
            sy == after[b].y - after[a].y
        IN  /\ centerNodeId \in DOMAIN positions =>
                 after[centerNodeId] = positions[centerNodeId]
            /\ \A c \in DOMAIN positions \ {a, b} : after[c] = positions[c]
            /\ b # centerNodeId =>
                 /\ ax = -bx /\ ay = -by
                 /\ LengthNear(4 * (bx * bx + by * by), overlap, 4)
                 /\ bx * dx + by * dy >= 0
            /\ b = centerNodeId =>
                 /\ bx = 0 /\ by = 0
                 /\ LengthNear(ax * ax + ay * ay, overlap, 4)
            /\ ax * dx + ay * dy <= 0
            /\ Abs(ax * dy - ay * dx) <= Abs(dx) + Abs(dy)
            /\ LengthNear(sx * sx + sy * sy, minDist, 4)

\* C18 happens: scalePositions left two non-center nodes of a graph with a
\* center more than a pixel too close to each other, and the correction of
\* the pair moves both of them
C18_Witness ==
  /\ pipePc = "resolving"
  /\ iter = 0
  /\ centerNodeId \in DOMAIN positions
  /\ \E a, b \in DOMAIN positions \ {centerNodeId} :
       /\ a # b
       /\ TooClose(positions[a], positions[b], a, b)
       /\ (positions[b].x - positions[a].x) * (positions[b].x - positions[a].x)
            + (positions[b].y - positions[a].y) * (positions[b].y - positions[a].y)
            < ((nodeSizes(nodes)[a] + nodeSizes(nodes)[b]) \div 2
                 + minDistanceFor(Len(nodes)) - Px(1)) ^ 2
       /\ AfterCorrection(a, b)[a] # positions[a]
       /\ AfterCorrection(a, b)[b] # positions[b]
       /\ AfterCorrection(a, b)[centerNodeId] = positions[centerNodeId]

(***************************************************************************)
(* Claims about the layout cache, checked under SpecCache.                 *)
(***************************************************************************)
\* C19: after any sequence of cacheLayout and getCachedLayout calls the
\* cache holds at most MAX_CACHE_SIZE (20) entries.
C19_AtMostMaxEntries == Len(layoutCache) <= MAX_CACHE_SIZE

\* C19 happens: the cache is full and holds a twenty-first key, stored by a
\* cacheLayout call that evicted another one
C19_Witness ==
  /\ Len(layoutCache) = MAX_CACHE_SIZE
  /\ Range(lastUse) = Range(layoutCache)
  /\ (MAX_CACHE_SIZE + 1) \in Range(layoutCache)
  /\ \E k \in 1..MAX_CACHE_SIZE : k \notin Range(layoutCache)

\* C20: an entry that leaves the cache is the least recently used one, its
\* last use being its latest cacheLayout write or getCachedLayout hit,
\* writes to a key already in the cache included.
C20_EvictsLeastRecentlyUsed ==
  [][\A k \in Range(layoutCache) \ Range(layoutCache') : k = Head(lastUse)]_vars

(***************************************************************************)
(* Claims about the graph builders, checked under SpecBuild.               *)
(***************************************************************************)
\* C21: the nodes built by buildCoauthorGraph and by
\* rebuildGraphFromPublications have pairwise distinct ids and exactly one
\* node with isCenter = true: the first node, which carries the center PID.
C21_OneCenterDistinctIds ==
  bPc = "done" /\ builtNodes # <<>> =>
    /\ \A i, j \in 1..Len(builtNodes) : builtNodes[i].id = builtNodes[j].id => i = j
    /\ {i \in 1..Len(builtNodes) : builtNodes[i].isCenter} = {1}
    /\ builtNodes[1].id = centerPid

\* C21 happens: the nodes were built from a publication that lists the
\* center author next to a coauthor, and from a second publication of that
\* coauthor
C21_Witness ==
  /\ bPc = "done"
  /\ Len(builtNodes) >= 2
  /\ Len(publications) = 2
  /\ \A p \in 1..2 : publications[p].hasAuthors
  /\ \E a \in 1..Len(publications[1].author) : AuthorPid(publications[1].author[a]) = centerPid
  /\ \E k \in 2..Len(builtNodes) : builtNodes[k].paperCount = 2

(***************************************************************************)
(* Claims about the worker's message handler, checked under SpecMsg.       *)
(***************************************************************************)
\* the places in the handled messages of the 'compute' messages
ComputePlaces == {k \in 1..Len(handled) : handled[k].type = "compute"}

\* C22: the worker posts exactly one message for every 'compute' message it
\* received, {type: 'result'} when computeLayout returned and
\* {type: 'error'} when it threw, and nothing for a message of another type.
C22_OneReplyPerCompute ==
  /\ \A k \in ComputePlaces :
       Cardinality({i \in 1..Len(posted) : posted[i].of = k}) = 1
  /\ \A i \in 1..Len(posted) :
       /\ posted[i].of \in ComputePlaces
       /\ posted[i].type = IF handled[posted[i].of].throws THEN "error" ELSE "result"

\* C22 happens: the worker handled a compute message that returned, one
\* that threw and a message of another type
C22_Witness ==
  /\ \E k \in ComputePlaces : handled[k].throws
  /\ \E k \in ComputePlaces : ~handled[k].throws
  /\ \E k \in 1..Len(handled) : handled[k].type # "compute"
  /\ Len(posted) >= 2

(***************************************************************************)
(* Claims about scalePositions, checked under SpecPipe. Output coordinates *)
(* are rounded to the fixed-point grid, so equalities between them hold up *)
(* to one unit.                                                            *)
(***************************************************************************)
\* the corners of the scaled bounding box of the simulated graph
BoxLow ==
  LET t == Scaling(graph, containerWidth, containerHeight)
  IN  ScaledPoint(t, containerWidth, containerHeight, [x |-> t.minX, y |-> t.minY])
BoxHigh ==
  LET t == Scaling(graph, containerWidth, containerHeight)
  IN  ScaledPoint(t, containerWidth, containerHeight, [x |-> t.maxX, y |-> t.maxY])

\* the place in the simulated graph of node id
SimOf(id) == graph[CHOOSE i \in 1..Len(graph) : graph[i].id = id]

\* C23: for a viewport wider and taller than 160, scalePositions returns
\* a position map that places
\* every non-center node inside [80, width - 80] x [80, height - 80], uses
\* one factor for both axes (the smaller of the two axis factors, so that
\* the box fills the padded rectangle along one axis) and centers the
\* scaled bounding box in the viewport.
C23_UniformScaleInsidePadding ==
  (pipePc = "resolving" /\ iter = 0 /\ graph # <<>>
     /\ containerWidth > Px(160) /\ containerHeight > Px(160)) =>
    LET low == BoxLow
        high == BoxHigh
    IN  /\ \A id \in DOMAIN positions \ {centerNodeId} :
             /\ Px(80) <= positions[id].x /\ positions[id].x <= containerWidth - Px(80)
             /\ Px(80) <= positions[id].y /\ positions[id].y <= containerHeight - Px(80)
        /\ \A a, b \in DOMAIN positions \ {centerNodeId} :
             Abs((positions[b].x - positions[a].x) * (SimOf(b).y - SimOf(a).y)
                   - (positions[b].y - positions[a].y) * (SimOf(b).x - SimOf(a).x))
               <= Abs(SimOf(b).x - SimOf(a).x) + Abs(SimOf(b).y - SimOf(a).y)
        /\ Abs(low.x + high.x - containerWidth) <= 1
        /\ Abs(low.y + high.y - containerHeight) <= 1
        /\ (high.x > low.x /\ high.y > low.y) =>
             \/ high.x - low.x >= containerWidth - Px(160) - 1
             \/ high.y - low.y >= containerHeight - Px(160) - 1

\* C23 happens: scalePositions returned for a graph of a center and two
\* other nodes that differ in x and in y, one of them on the left border
\* of the padded rectangle and the scaled box not filling the height
C23_Witness ==
  /\ pipePc = "resolving"
  /\ iter = 0
  /\ centerNodeId \in DOMAIN positions
  /\ BoxHigh.y - BoxLow.y < containerHeight - Px(160) - 1
  /\ \E a, b \in DOMAIN positions \ {centerNodeId} :
       /\ positions[a].x = Px(80)
       /\ positions[b].x # positions[a].x
       /\ positions[b].y # positions[a].y

\* C26: the scale and offset of scalePositions, applied to the simulated
\* position of the pinned center, already give the viewport center, so
\* setting the center's entry to the viewport center changes nothing.
C26_ForceSetIsNoOp ==
  (pipePc = "resolving" /\ iter = 0 /\ centerNodeId \in DOMAIN positions) =>
    LET scaled == ScaledPoint(Scaling(graph, containerWidth, containerHeight),
                              containerWidth, containerHeight, SimOf(centerNodeId))
    IN  /\ SimOf(centerNodeId).x = ViewportCenter.x
        /\ SimOf(centerNodeId).y = ViewportCenter.y
        /\ Abs(scaled.x - positions[centerNodeId].x) <= 1
        /\ Abs(scaled.y - positions[centerNodeId].y) <= 1

(***************************************************************************)
(* Claims about the pass loop of resolveOverlaps, checked under            *)
(* SpecOverlap.                                                            *)
(***************************************************************************)
\* C24: resolveOverlaps runs at most maxIterations passes, for more than
\* 500 nodes at most min(maxIterations, max(20, floor(100 / log10(N)))),
\* and returns right after the first pass that moved no node; for more than
\* 200 nodes the grid is rebuilt only after passes 5, 10, 15, ... and only
\* if that pass moved a node (and never for at most 200 nodes).
C24_PassBudgetAndRebuilds ==
  /\ Len(passes) <= overlapMaxIter
  /\ overlapNodes > 500 =>
       Len(passes) <= Max(20, HundredOverLog10(overlapNodes))
  /\ \A k \in 1..Len(passes) : ~passes[k] => (k = Len(passes) /\ overlapPc = "done")
  /\ \A k \in rebuiltAfter :
       overlapNodes > 200 /\ k % 5 = 0 /\ k \in 1..Len(passes) /\ passes[k]
  /\ overlapNodes <= 200 => rebuiltAfter = {}

\* C24 happens: resolveOverlaps returned for more than 500 nodes after a
\* pass that moved nothing, later than pass 10 and before the budget was
\* used up, the grid rebuilt after the passes 5 and 10
C24_Witness ==
  /\ overlapPc = "done"
  /\ overlapNodes > 500
  /\ Len(passes) > 10
  /\ Len(passes) < Max(20, HundredOverLog10(overlapNodes))
  /\ ~passes[Len(passes)]
  /\ rebuiltAfter = {5, 10}

(***************************************************************************)
(* Claims about the spatial grid, checked under SpecGrid.                  *)
(***************************************************************************)
\* nodes a and b are at most the search radius apart at the start
WithinRadius(a, b) ==
  (startPositions[b].x - startPositions[a].x) ^ 2
    + (startPositions[b].y - startPositions[a].y) ^ 2 <= GridRadius ^ 2

\* C25: right after rebuild(), getNearbyNodes(id, searchRadius) returns
\* every other node at most searchRadius away from id and never id itself,
\* and a pass over the freshly built grid corrects exactly the pairs that
\* the pass over all pairs corrects.
C25_GridPassIsBrutePass ==
  /\ (built /\ startPositions # <<>>) =>
       \A id \in DOMAIN startPositions :
         LET nearby == Range(getNearbyNodes(spatialGrid, startPositions, id,
                                            GridRadius, GridRadius))
         IN  /\ id \notin nearby
             /\ \A other \in DOMAIN startPositions \ {id} :
                  WithinRadius(id, other) => other \in nearby
  /\ (gridPass.done /\ brutePass.done) => gridPass.corrected = brutePass.corrected

(***************************************************************************)
(* Claims about the two routes, checked under SpecLoop.                    *)
(***************************************************************************)
\* the parameters route rt runs the pipeline with for n nodes
RouteParameters(rt, n) ==
  [settings |-> settingsFor(rt, n), batch |-> batchSize(rt, n),
   ceiling |-> maxIterations(rt, n), threshold2 |-> convergenceThreshold2(rt, n),
   minDistance |-> overlapMinDistance(rt, n), passes |-> overlapBudget(rt, n)]

\* C27: the synchronous route and the worker route run the pipeline for a
\* request with the same FA2 settings, batch size, iteration ceiling,
\* convergence threshold, overlap minDistance and overlap pass budget.
C27_RoutesAgree ==
  totalIterations > 0 =>
    /\ fa2Settings = RouteParameters("worker", nodeCount).settings
    /\ fa2Settings = RouteParameters("sync", nodeCount).settings
    /\ RouteParameters("worker", nodeCount) = RouteParameters("sync", nodeCount)

\* C28: whenever no call of initializeCytoscape is under way, the guard
\* isInitializingRef is released, so the next call is not turned away by it;
\* this covers the call that ended because computeLayoutAsync rejected
C28_GuardReleasedOnEveryExit == initPc = "idle" => ~isInitializing

\* C29: the positions getCachedLayout returned for the key of the enabled
\* types were computed for the graph of exactly those types and for the
\* width and height the container has at that moment
C29_CachedLayoutFitsTypesAndSize ==
  lastHit.hit =>
    /\ lastHit.entry.types = lastHit.types
    /\ lastHit.entry.w = lastHit.w
    /\ lastHit.entry.h = lastHit.h

\* C30: per identifier at most maxRequests calls are allowed within one
\* window; every call reports remaining = maxRequests - count and never a
\* negative number; a denied call leaves the store as it was; a window is
\* opened only by the first call or by a call made after the resetTime of
\* the window before; and every call returns what it would return had the
\* cleanup never run
C30_RateLimitWindows ==
  /\ \A identifier \in Identifiers :
       granted[identifier] <= ConfigOf(identifier).maxRequests
  /\ lastCall.called =>
       /\ lastCall.result.remaining >= 0
       /\ lastCall.result.remaining =
            ConfigOf(lastCall.identifier).maxRequests - lastCall.after.count
       /\ ~lastCall.result.allowed => lastCall.after = lastCall.before
       /\ (lastCall.result.allowed /\ lastCall.after.count = 1) =>
            (lastCall.endBefore = -1 \/ lastCall.endBefore < lastCall.now)
       /\ lastCall.result = lastCall.plain

\* C30 happens: one identifier has used up its window, and a call opens a
\* new window for the other one, whose expired entry the cleanup had deleted
C30_Witness ==
  /\ lastCall.called
  /\ lastCall.cleaned
  /\ lastCall.before = NoEntry
  /\ lastCall.endBefore >= 0
  /\ lastCall.result.allowed
  /\ \E identifier \in Identifiers :
       /\ identifier # lastCall.identifier
       /\ granted[identifier] = ConfigOf(identifier).maxRequests
       /\ rateLimitStore[identifier].count = ConfigOf(identifier).maxRequests

====
